---- MODULE Spec2Model ----
(***************************************************************************)
(* A state-machine model of the Commodore 64 emulator core of              *)
(* tools/c64_emulator.py (MemoryMap, CIATimer, CPU6502, C64Emulator,       *)
(* EmulatorServer) and of the key handler of c64py/ui.py.                  *)
(*                                                                         *)
(* Numbers are decimal; the hexadecimal value of the source is given in a  *)
(* comment where it helps.  Python integers are unbounded, so a value is   *)
(* masked exactly where the source masks it and nowhere else.              *)
(***************************************************************************)
EXTENDS Integers, Sequences, FiniteSets, TLC

---------------------------------------------------------------------------
(* Memory map constants, c64_emulator.py lines 37-59.                      *)

ROM_BASIC_START == 40960
\* $A000
ROM_BASIC_END == 49152
\* $C000
ROM_KERNAL_START == 57344
\* $E000
ROM_KERNAL_END == 65536
\* $10000
ROM_CHAR_START == 53248
\* $D000
ROM_CHAR_END == 57344
\* $E000
VIC_BASE == 53248
\* $D000
SID_BASE == 54272
\* $D400
CIA1_BASE == 56320
\* $DC00
CIA2_BASE == 56576
\* $DD00
SCREEN_MEM == 1024
\* $0400
COLOR_MEM == 55296
\* $D800
KB_BUF == 631
\* $0277, the keyboard buffer; its length lives at $C6
KB_LEN == 198
\* $C6
ADDR_CHRIN == 65487
\* $FFCF
ADDR_CHROUT == 65490
\* $FFD2
ADDR_CINT == 65371
\* $FF5B
ADDR_ICR == 56333
\* $DC0D

---------------------------------------------------------------------------
(* Evaluation.  An operator that uses an argument more than once binds it  *)
(* to its value first, with The({ e : x \in {arg} }): the argument, often  *)
(* a whole machine state computed by nested calls, is then evaluated once  *)
(* per call instead of once per use.  A local of the source that is used   *)
(* more than once is bound the same way; where one local is computed from  *)
(* another the bindings nest, and the local assigned first is bound last   *)
(* in the text.                                                            *)

The(S) == CHOOSE x \in S : TRUE

---------------------------------------------------------------------------
(* Bit arithmetic on naturals.                                             *)

RECURSIVE BitAnd(_, _)
BitAnd(a_, b_) ==
    The({(
        IF a = 0 \/ b = 0 THEN 0
        ELSE (IF a % 2 = 1 /\ b % 2 = 1 THEN 1 ELSE 0) + 2 * BitAnd(a \div 2, b \div 2)
        ) : a \in {a_}, b \in {b_}})

RECURSIVE BitOr(_, _)
BitOr(a_, b_) ==
    The({(
        IF a = 0 THEN b
        ELSE IF b = 0 THEN a
        ELSE (IF a % 2 = 1 \/ b % 2 = 1 THEN 1 ELSE 0) + 2 * BitOr(a \div 2, b \div 2)
        ) : a \in {a_}, b \in {b_}})

\* x & flag != 0
HasBits(x, flag) == BitAnd(x, flag) # 0

\* x & ~flag, for x >= 0
ClearBits(x_, flag) ==
    The({(
        x - BitAnd(x, flag)
        ) : x \in {x_}})

---------------------------------------------------------------------------
(* The RAM image.  MemoryMap.ram is a bytearray of 65,536 bytes.  The      *)
(* model stores it sparsely: ram is a function whose domain holds the      *)
(* addresses whose byte differs from the boot image BootByte, the image    *)
(* load_roms and _initialize_c64 leave in a freshly constructed (zeroed)   *)
(* bytearray.  The representation is canonical: equal byte arrays are      *)
(* equal functions.                                                        *)

\* The ROM images are files outside the repository.  The model uses a stand-in
\* for each: the KERNAL image holds the hardware vectors of the stock ROM
\* (reset $FCE2, IRQ $FF48, NMI $FE43) and NOP ($EA) elsewhere.
KernalRomByte(addr_) ==
    The({(
        CASE addr = 65530 -> 67
          [] addr = 65531 -> 254
          [] addr = 65532 -> 226
          [] addr = 65533 -> 252
          [] addr = 65534 -> 72
          [] addr = 65535 -> 255
          [] OTHER -> 234
        ) : addr \in {addr_}})

\* The BASIC stand-in image: $94 at every offset.
BasicRomByte(addr) == 148

\* The character stand-in image: $3C at every offset.
CharRomByte(addr) == 60

\* test_text = "C64 EMULATOR TEST", written with ord() at the start of screen RAM
TestText == <<67, 54, 52, 32, 69, 77, 85, 76, 65, 84, 79, 82, 32, 84, 69, 83, 84>>

\* kernal_vectors: the words stored at $0300, $0302, ..., $0334
KernalVectors ==
    <<58459, 65100, 64931, 60752, 64844, 5629, 60698, 64844, 6398, 19641,
      59953, 65126, 65095, 65100, 13566, 19591, 59980, 8702, 19475, 61004,
      56813, 19695, 60748, 65261, 19468, 60748, 2541>>

\* The addresses load_roms and _initialize_c64 assign.
IsInitAddr(addr_, kernal) ==
    The({(
        \/ addr \in {0, 1, 195, 196, 648, 646, 209, 210, 32768, 32769, 2049, 2050, 198, 108}
        \/ addr \in 43..52
        \/ addr \in SCREEN_MEM..(SCREEN_MEM + 999)
        \/ addr \in COLOR_MEM..(COLOR_MEM + 999)
        \/ addr \in 768..821
        \/ (kernal /\ addr \in {65532, 65533})
        ) : addr \in {addr_}})

\* The byte load_roms and _initialize_c64 leave at addr in a zeroed bytearray.
BootByte(addr_, kernal_) ==
    The({(
        CASE addr = 0 -> 47
          [] addr = 1 -> 55
          [] addr \in SCREEN_MEM..(SCREEN_MEM + 16) -> TestText[addr - SCREEN_MEM + 1]
          [] addr \in (SCREEN_MEM + 17)..(SCREEN_MEM + 999) -> 32
          [] addr \in COLOR_MEM..(COLOR_MEM + 999) -> 1
          [] addr = 195 -> 20
          [] addr = 196 -> 3
          [] addr \in {646, 648} -> 14
          [] addr = 209 -> 0
          [] addr = 210 -> 4
          [] addr = 32768 -> 131
          [] addr = 32769 -> 164
          [] addr \in {43, 45, 47, 49, 51} -> 1
          [] addr \in {44, 46, 48, 50, 52} -> 8
          [] addr \in 768..821 ->
                LET w == KernalVectors[((addr - 768) \div 2) + 1]
                IN  IF (addr - 768) % 2 = 0 THEN w % 256 ELSE (w \div 256) % 256
          [] kernal /\ addr = 65532 -> KernalRomByte(65532)
          [] kernal /\ addr = 65533 -> KernalRomByte(65533)
          [] OTHER -> 0
        ) : addr \in {addr_}, kernal \in {kernal_}})

\* self.ram[addr]
RamGet(mem_, addr_) ==
    The({(
        IF addr \in DOMAIN mem.ram THEN mem.ram[addr] ELSE BootByte(addr, mem.kernal_rom)
        ) : mem \in {mem_}, addr \in {addr_}})

\* self.ram[addr] = value
RamSet(mem_, addr_, value_) ==
    The({(
        [mem EXCEPT !.ram =
            IF value = BootByte(addr, mem.kernal_rom)
            THEN [x \in (DOMAIN mem.ram) \ {addr} |-> mem.ram[x]]
            ELSE [x \in (DOMAIN mem.ram) \cup {addr} |-> IF x = addr THEN value ELSE mem.ram[x]]]
        ) : mem \in {mem_}, addr \in {addr_}, value \in {value_}})

\* C64Emulator.dump_memory(addr, addr + 1)[0]: the RAM byte, never a ROM byte
dump_memory(mem, addr) == RamGet(mem, addr)

---------------------------------------------------------------------------
(* CIATimer and the CIA1 / VIC-II registers of MemoryMap.                  *)

\* CIATimer's field defaults
NewTimer ==
    [latch |-> 65535, counter |-> 65535, running |-> FALSE,
     irq_enabled |-> FALSE, one_shot |-> FALSE, input_mode |-> 0]

\* self._vic_regs[reg]; the bytearray is created zeroed by the first _write_vic
VicReg(mem_, reg_) ==
    The({(
        IF reg \in DOMAIN mem.vic_regs THEN mem.vic_regs[reg] ELSE 0
        ) : mem \in {mem_}, reg \in {reg_}})

\* _read_vic evaluates self._vic_regs, an attribute that exists only after the
\* first _write_vic: before it the read raises AttributeError.
read_vic_raises(mem, reg) == reg \notin {17, 18, 25} /\ ~mem.has_vic_regs

_read_vic(mem_, reg_) ==
    The({(
        CASE reg = 17 -> ((mem.raster_line \div 256) % 2) * 128 + 8
          [] reg = 18 -> mem.raster_line % 256
          [] reg = 25 -> 0
          [] reg \in {32, 33} -> VicReg(mem, reg) % 16
          [] OTHER -> VicReg(mem, reg)
        ) : mem \in {mem_}, reg \in {reg_}})

_write_vic(mem_, reg_, value_) ==
    The({(
        [mem EXCEPT !.has_vic_regs = TRUE,
                    !.vic_regs = IF value = 0
                                 THEN [x \in (DOMAIN mem.vic_regs) \ {reg} |-> mem.vic_regs[x]]
                                 ELSE [x \in (DOMAIN mem.vic_regs) \cup {reg} |->
                                            IF x = reg THEN value ELSE mem.vic_regs[x]]]
        ) : mem \in {mem_}, reg \in {reg_}, value \in {value_}})

\* The control-register byte _read_cia1 builds for CRA / CRB
ControlByte(t_) ==
    The({(
        (IF t.running THEN 1 ELSE 0) + (IF t.one_shot THEN 8 ELSE 0) + t.input_mode * 32
        ) : t \in {t_}})

\* The value _read_cia1 returns (its effect on the ICR is cia1_after_read)
_read_cia1(mem_, reg_) ==
    The({(
        CASE reg = 4 -> mem.cia1_timer_a.counter % 256
          [] reg = 5 -> (mem.cia1_timer_a.counter \div 256) % 256
          [] reg = 6 -> mem.cia1_timer_b.counter % 256
          [] reg = 7 -> (mem.cia1_timer_b.counter \div 256) % 256
          [] reg = 13 -> mem.cia1_icr
          [] reg = 14 -> ControlByte(mem.cia1_timer_a)
          [] reg = 15 -> ControlByte(mem.cia1_timer_b)
          [] OTHER -> 0
        ) : mem \in {mem_}, reg \in {reg_}})

\* Reading the ICR acknowledges: cia1_icr = 0, pending_irq = False
cia1_after_read(mem_, reg) ==
    The({(
        IF reg = 13 THEN [mem EXCEPT !.cia1_icr = 0, !.pending_irq = FALSE] ELSE mem
        ) : mem \in {mem_}})

\* (x & 0xFF00) | value and (x & 0x00FF) | (value << 8), value a byte
SetLow(x, value) == ((x % 65536) \div 256) * 256 + value
SetHigh(x, value) == BitOr(x % 256, value * 256)

\* A latch write: the latch byte, mirrored into the counter of a stopped timer
WriteLatchLow(t_, value_) ==
    The({(
        [t EXCEPT !.latch = SetLow(t.latch, value),
                  !.counter = IF t.running THEN t.counter ELSE SetLow(t.counter, value)]
        ) : t \in {t_}, value \in {value_}})
WriteLatchHigh(t_, value_) ==
    The({(
        [t EXCEPT !.latch = SetHigh(t.latch, value),
                  !.counter = IF t.running THEN t.counter ELSE SetHigh(t.counter, value)]
        ) : t \in {t_}, value \in {value_}})

\* A control-register write (CRA / CRB)
WriteControl(t_, value_) ==
    The({(
        [t EXCEPT !.counter = IF value % 2 = 1 /\ ~t.running THEN t.latch ELSE t.counter,
                  !.running = (value % 2 = 1),
                  !.one_shot = ((value \div 8) % 2 = 1),
                  !.input_mode = (value \div 32) % 4]
        ) : t \in {t_}, value \in {value_}})

\* An ICR mask write: bit 7 selects set or clear of the enables named by bits 0,1
WriteMask(t_, value_, bit) ==
    The({(
        IF (value \div bit) % 2 = 1
        THEN [t EXCEPT !.irq_enabled = (value >= 128)]
        ELSE t
        ) : t \in {t_}, value \in {value_}})

_write_cia1(mem_, reg_, value_) ==
    The({(
        CASE reg = 4 -> [mem EXCEPT !.cia1_timer_a = WriteLatchLow(@, value)]
          [] reg = 5 -> [mem EXCEPT !.cia1_timer_a = WriteLatchHigh(@, value)]
          [] reg = 6 -> [mem EXCEPT !.cia1_timer_b = WriteLatchLow(@, value)]
          [] reg = 7 -> [mem EXCEPT !.cia1_timer_b = WriteLatchHigh(@, value)]
          [] reg = 13 -> [mem EXCEPT !.cia1_timer_a = WriteMask(@, value, 1),
                                     !.cia1_timer_b = WriteMask(@, value, 2)]
          [] reg = 14 -> [mem EXCEPT !.cia1_timer_a = WriteControl(@, value)]
          [] reg = 15 -> [mem EXCEPT !.cia1_timer_b = WriteControl(@, value)]
          [] OTHER -> mem
        ) : mem \in {mem_}, reg \in {reg_}, value \in {value_}})

---------------------------------------------------------------------------
(* MemoryMap.read and MemoryMap.write.                                     *)

\* self.ram[0x01] & 0x03 == 0x03
IoEnabled(mem) == RamGet(mem, 1) % 4 = 3

\* self.ram[0x01] & 0x07 == 0x07
RomEnabled(mem) == RamGet(mem, 1) % 8 = 7

InVic(addr_) ==
    The({(
        addr >= VIC_BASE /\ addr < VIC_BASE + 64
        ) : addr \in {addr_}})
InSid(addr_) ==
    The({(
        addr >= SID_BASE /\ addr < SID_BASE + 32
        ) : addr \in {addr_}})
InCia1(addr_) ==
    The({(
        addr >= CIA1_BASE /\ addr < CIA1_BASE + 16
        ) : addr \in {addr_}})
InCia2(addr_) ==
    The({(
        addr >= CIA2_BASE /\ addr < CIA2_BASE + 16
        ) : addr \in {addr_}})
InCharWindow(addr_) ==
    The({(
        addr >= ROM_CHAR_START /\ addr < ROM_CHAR_END
        ) : addr \in {addr_}})
InBasicWindow(addr_) ==
    The({(
        addr >= ROM_BASIC_START /\ addr < ROM_BASIC_END
        ) : addr \in {addr_}})
InKernalWindow(addr_) ==
    The({(
        addr >= ROM_KERNAL_START /\ addr < ROM_KERNAL_END
        ) : addr \in {addr_}})

_read_io(mem_, addr_) ==
    The({(
        CASE InVic(addr) -> _read_vic(mem, addr - VIC_BASE)
          [] InSid(addr) -> 0
          [] InCia1(addr) -> _read_cia1(mem, addr - CIA1_BASE)
          [] InCia2(addr) -> 0
          [] OTHER -> 0
        ) : mem \in {mem_}, addr \in {addr_}})

_write_io(mem_, addr_, value_) ==
    The({(
        CASE InVic(addr) -> _write_vic(mem, addr - VIC_BASE, value)
          [] InSid(addr) -> mem
          [] InCia1(addr) -> _write_cia1(mem, addr - CIA1_BASE, value)
          [] InCia2(addr) -> mem
          [] OTHER -> mem
        ) : mem \in {mem_}, addr \in {addr_}, value \in {value_}})

\* The byte MemoryMap.read returns
read(mem_, a) ==
    The({(
        LET addr == a % 65536
        IN  IF InCharWindow(addr)
            THEN IF IoEnabled(mem) THEN _read_io(mem, addr)
                 ELSE IF mem.char_rom THEN CharRomByte(addr)
                 ELSE RamGet(mem, addr)
            ELSE IF InBasicWindow(addr)
            THEN IF RomEnabled(mem) /\ mem.basic_rom THEN BasicRomByte(addr) ELSE RamGet(mem, addr)
            ELSE IF InKernalWindow(addr)
            THEN IF RomEnabled(mem) /\ mem.kernal_rom THEN KernalRomByte(addr) ELSE RamGet(mem, addr)
            ELSE RamGet(mem, addr)
        ) : mem \in {mem_}})

\* The MemoryMap after MemoryMap.read (a read of the ICR acknowledges)
after_read(mem_, a) ==
    The({(
        LET addr == a % 65536
        IN  IF InCharWindow(addr) /\ IoEnabled(mem) /\ InCia1(addr)
            THEN cia1_after_read(mem, addr - CIA1_BASE)
            ELSE mem
        ) : mem \in {mem_}})

\* MemoryMap.read raises (AttributeError from _read_vic)
read_raises(mem_, a) ==
    The({(
        LET addr == a % 65536
        IN  InCharWindow(addr) /\ IoEnabled(mem) /\ InVic(addr)
            /\ read_vic_raises(mem, addr - VIC_BASE)
        ) : mem \in {mem_}})

\* A bus whose writes to the BASIC window are lost
write_DropsBasicWindow(mem_, a, v) ==
    The({(
        LET addr == a % 65536
            value == v % 256
        IN  IF InBasicWindow(addr) THEN mem
            ELSE IF InCharWindow(addr) /\ IoEnabled(mem) THEN _write_io(mem, addr, value)
            ELSE RamSet(mem, addr, value)
        ) : mem \in {mem_}})

\* MemoryMap.write.  The screen-update hook (lines 175-185) needs an attribute
\* `interface` of the MemoryMap, which nothing assigns: it never runs.
write(mem_, a, v) ==
    The({(
        LET addr == a % 65536
            value == v % 256
        IN  IF InBasicWindow(addr) THEN RamSet(mem, addr, value)
            ELSE IF InKernalWindow(addr) THEN RamSet(mem, addr, value)
            ELSE IF InCharWindow(addr)
            THEN IF IoEnabled(mem) THEN _write_io(mem, addr, value) ELSE RamSet(mem, addr, value)
            ELSE RamSet(mem, addr, value)
        ) : mem \in {mem_}})

\* A ROM image answers a read of addr (the RAM underneath is masked)
RomMapped(mem_, a) ==
    The({(
        LET addr == a % 65536
        IN  \/ InBasicWindow(addr) /\ RomEnabled(mem) /\ mem.basic_rom
            \/ InKernalWindow(addr) /\ RomEnabled(mem) /\ mem.kernal_rom
            \/ InCharWindow(addr) /\ ~IoEnabled(mem) /\ mem.char_rom
        ) : mem \in {mem_}})

\* The byte of the ROM image mapped at addr
RomByte(a) ==
    LET addr == a % 65536
    IN  IF InBasicWindow(addr) THEN BasicRomByte(addr)
        ELSE IF InKernalWindow(addr) THEN KernalRomByte(addr)
        ELSE CharRomByte(addr)

\* The I/O registers answer addr
IoMapped(mem, a) == InCharWindow(a % 65536) /\ IoEnabled(mem)

---------------------------------------------------------------------------
(* CPU6502.  A CPU object is the record                                     *)
(*   [state |-> CPUState, memory |-> MemoryMap, run_injected |-> BOOLEAN]   *)
(* run_injected says the attribute _run_injected exists.                    *)

\* CPUState's field defaults
NewCPUState ==
    [pc |-> 0, a |-> 0, x |-> 0, y |-> 0, sp |-> 255, p |-> 4,
     cycles |-> 0, stopped |-> FALSE]

FLAG_I == 4
\* the interrupt-disable flag, tested as _get_flag(0x04)

Rd(c, addr) == read(c.memory, addr)
Wr(c, addr, value) == [c EXCEPT !.memory = write(@, addr, value)]
Ack(c, addr) == [c EXCEPT !.memory = after_read(@, addr)]

_read_word(c_, addr_) ==
    The({(
        BitOr(Rd(c, addr), Rd(c, (addr + 1) % 65536) * 256)
        ) : c \in {c_}, addr \in {addr_}})

_get_flag(c, flag) == HasBits(c.state.p, flag)

_set_flag(c, flag_, value) ==
    The({(
        [c EXCEPT !.state.p = IF value THEN BitOr(@, flag) ELSE ClearBits(@, flag)]
        ) : flag \in {flag_}})

_update_flags(c, value_) ==
    The({(
        _set_flag(_set_flag(c, 2, (value % 256) = 0), 128, (value % 256) >= 128)
        ) : value \in {value_}})

\* self.state.pc = (self.state.pc + n) & 0xFFFF
AdvPc(c, n) == [c EXCEPT !.state.pc = (@ + n) % 65536]

\* self.state.pc = ((pc_high << 8) | pc_low + 1) & 0xFFFF.  In Python + binds
\* tighter than |, so the expression is (pc_high << 8) | (pc_low + 1).
ReturnPc(pc_high, pc_low) == BitOr(pc_high * 256, pc_low + 1) % 65536

\* Pop the return address: the RTS sequence shared by _rts and the traps
PopReturn(c_) ==
    The({(
        LET sp1 == (c.state.sp + 1) % 256
            pc_low == Rd(c, 256 + sp1)
            sp2 == (sp1 + 1) % 256
            pc_high == Rd(c, 256 + sp2)
        IN  [c EXCEPT !.state.sp = sp2, !.state.pc = ReturnPc(pc_high, pc_low)]
        ) : c \in {c_}})

\* Push one byte: write at 0x100 + sp, then sp = (sp - 1) & 0xFF
Push(c_, value) ==
    The({(
        [Wr(c, 256 + c.state.sp, value) EXCEPT !.state.sp = (c.state.sp - 1) % 256]
        ) : c \in {c_}})

Ret(c, n) == [c |-> c, cycles |-> n]

_jsr_abs(c_) ==
    The({(
        LET addr == _read_word(c, c.state.pc + 1)
            return_addr == (c.state.pc + 2) % 65536
            c1 == Push(c, return_addr \div 256)
            c2 == Push(c1, return_addr % 256)
        IN  Ret([c2 EXCEPT !.state.pc = addr], 6)
        ) : c \in {c_}})

_rts(c) == Ret(PopReturn(c), 6)

_rti(c_) ==
    The({(
        LET sp1 == (c.state.sp + 1) % 256
            p == ClearBits(Rd(c, 256 + sp1), 16)
            sp2 == (sp1 + 1) % 256
            pc_low == Rd(c, 256 + sp2)
            sp3 == (sp2 + 1) % 256
            pc_high == Rd(c, 256 + sp3)
        IN  Ret([c EXCEPT !.state.sp = sp3, !.state.p = p,
                          !.state.pc = BitOr(pc_low, pc_high * 256) % 65536], 6)
        ) : c \in {c_}})

_brk(c_) ==
    The({(
        The({ The({ The({(
            Ret([c4 EXCEPT !.state.pc = _read_word(c4, 65534)], 7)
            ) : c4 \in {_set_flag(Push(c2, BitOr(c2.state.p, 16)), FLAG_I, TRUE)}})
              : c2 \in {Push(Push(c, pc_high), pc_low)}})
              : pc_high \in {(c.state.pc + 2) \div 256}, pc_low \in {(c.state.pc + 2) % 256}})
        ) : c \in {c_}})

_jmp_abs(c_) ==
    The({(
        Ret([c EXCEPT !.state.pc = _read_word(c, c.state.pc + 1)], 3)
        ) : c \in {c_}})

_lda_imm(c_) ==
    The({(
        The({(
            Ret(AdvPc(_update_flags([c EXCEPT !.state.a = v], v), 2), 2)
            ) : v \in {Rd(c, c.state.pc + 1)}})
        ) : c \in {c_}})

_lda_abs(c_) ==
    The({(
        The({ The({(
            Ret(AdvPc(_update_flags([Ack(c, addr) EXCEPT !.state.a = v], v), 3), 4)
            ) : v \in {Rd(c, addr)}})
              : addr \in {_read_word(c, c.state.pc + 1)}})
        ) : c \in {c_}})

_sta_abs(c_) ==
    The({(
        LET addr == _read_word(c, c.state.pc + 1)
        IN  Ret(AdvPc(Wr(c, addr, c.state.a), 3), 4)
        ) : c \in {c_}})

\* (x & 0x80) != 0
Bit7(x) == (x \div 128) % 2 = 1

\* The body shared by _adc_imm, _adc_zp and _adc_abs once value is read:
\* result = a + value + carry; C = result > 0xFF; a = result & 0xFF; N, Z.
\* V is not assigned.
AdcValue(c_, value_, size, cycles) ==
    The({(
        The({(
            Ret(AdvPc(_update_flags([_set_flag(c, 1, result > 255)
                                        EXCEPT !.state.a = result % 256],
                                    result % 256), size), cycles)
            ) : result \in {c.state.a + value + (IF _get_flag(c, 1) THEN 1 ELSE 0)}})
        ) : c \in {c_}, value \in {value_}})

_adc_imm(c) == AdcValue(c, Rd(c, c.state.pc + 1), 2, 2)

_adc_zp(c) == AdcValue(c, Rd(c, Rd(c, c.state.pc + 1)), 2, 3)

_adc_abs(c_) ==
    The({(
        The({(
            AdcValue(Ack(c, addr), Rd(c, addr), 3, 4)
            ) : addr \in {_read_word(c, c.state.pc + 1)}})
        ) : c \in {c_}})

\* The body shared by the SBC branches once value is read: result = a - value
\* - (1 - carry); C = result >= 0; a = result & 0xFF; N, Z.  sets_v says the
\* branch has the line that assigns V: ((a ^ value) & 0x80) != 0 and
\* ((a ^ result) & 0x80) != 0
SbcValue(c_, value_, sets_v, size, cycles) ==
    The({(
        The({ The({(
            Ret(AdvPc(_update_flags([c1 EXCEPT !.state.a = result % 256],
                                    result % 256), size), cycles)
            ) : c1 \in {IF sets_v
                        THEN _set_flag(_set_flag(c, 1, result >= 0), 64,
                                       /\ Bit7(c.state.a) # Bit7(value)
                                       /\ Bit7(c.state.a) # Bit7(result % 256))
                        ELSE _set_flag(c, 1, result >= 0)}})
              : result \in {(c.state.a - value) - (1 - (IF _get_flag(c, 1) THEN 1 ELSE 0))}})
        ) : c \in {c_}, value \in {value_}})

_sbc_imm(c) == SbcValue(c, Rd(c, c.state.pc + 1), FALSE, 2, 2)

_sbc_zp(c) == SbcValue(c, Rd(c, Rd(c, c.state.pc + 1)), TRUE, 2, 3)

_sbc_abs(c_) ==
    The({(
        The({(
            SbcValue(Ack(c, addr), Rd(c, addr), FALSE, 3, 4)
            ) : addr \in {_read_word(c, c.state.pc + 1)}})
        ) : c \in {c_}})

\* SBC (zp,X), the branch of opcode $E1
SbcIndx(c_) ==
    The({(
        The({ The({(
            SbcValue(Ack(c, addr), Rd(c, addr), TRUE, 2, 6)
            ) : addr \in {BitOr(Rd(c, zp_addr), Rd(c, (zp_addr + 1) % 256) * 256)}})
              : zp_addr \in {(Rd(c, c.state.pc + 1) + c.state.x) % 256}})
        ) : c \in {c_}})

\* SBC abs,X, the branch of opcode $FD
SbcAbsx(c_) ==
    The({(
        The({(
            SbcValue(Ack(c, addr), Rd(c, addr), TRUE, 3, 4)
            ) : addr \in {(_read_word(c, c.state.pc + 1) + c.state.x) % 65536}})
        ) : c \in {c_}})

_inx(c_) ==
    The({(
        LET v == (c.state.x + 1) % 256
        IN  Ret(AdvPc(_update_flags([c EXCEPT !.state.x = v], v), 1), 2)
        ) : c \in {c_}})

_pha(c) == Ret(AdvPc(Push(c, c.state.a), 1), 3)

_pla(c_) ==
    The({(
        The({(
            Ret(AdvPc(_update_flags([c EXCEPT !.state.sp = sp, !.state.a = v], v), 1), 4)
            ) : v \in {Rd(c, 256 + sp)}})
        ) : c \in {c_}, sp \in {(c_.state.sp + 1) % 256}})

\* the status is pushed with B set and pulled with B cleared
_php(c) == Ret(AdvPc(Push(c, BitOr(c.state.p, 16)), 1), 3)

_plp(c_) ==
    The({(
        Ret(AdvPc([c EXCEPT !.state.sp = sp,
                            !.state.p = ClearBits(Rd(c, 256 + sp), 16)], 1), 4)
        ) : c \in {c_}, sp \in {(c_.state.sp + 1) % 256}})

\* CLI also drops the pending-IRQ line (line 1112)
Cli(c) == Ret(AdvPc(_set_flag([c EXCEPT !.memory.pending_irq = FALSE], FLAG_I, FALSE), 1), 2)

Sei(c) == Ret(AdvPc(_set_flag(c, FLAG_I, TRUE), 1), 2)

\* KIL ($02): stopped, PC + 1, 0 cycles
Kil(c) == Ret(AdvPc([c EXCEPT !.state.stopped = TRUE], 1), 0)

\* The final else of the chain: an opcode no branch names halts the CPU
UnknownOpcode(c) == Ret([c EXCEPT !.state.stopped = TRUE], 0)

\* The opcodes the `opcode in [...]` branches of lines 1147-1165 reach (an
\* opcode listed there but named by an earlier branch never gets this far)
NopImm == {130, 137, 194, 226}
NopZp == {4, 68, 100}
NopAbsx == {20, 28, 60, 92, 124, 220, 252}
UndocNop ==
    {3, 7, 11, 15, 18, 19, 23, 26, 27, 31, 34, 39, 47, 50, 51, 52, 55, 58, 59,
     63, 66, 67, 71, 75, 79, 82, 83, 84, 87, 90, 91, 95, 98, 99, 103, 107, 111,
     114, 115, 116, 119, 123, 131, 139, 143, 146, 147, 151, 155, 156, 158, 159,
     171, 178, 179, 183, 187, 195, 203, 207, 210, 211, 212, 215, 218, 219, 223,
     227, 231, 235, 239, 242, 243, 244, 247, 250, 251}

\* The opcodes no branch of the chain names
UnknownOpcodes ==
    {1, 12, 17, 21, 22, 29, 30, 33, 35, 43, 49, 53, 54, 57, 61, 62, 65, 81, 85,
     86, 89, 93, 94, 97, 113, 117, 121, 125, 126, 150, 188, 213, 214, 217, 222,
     241, 245, 246, 249}

\* The opcodes whose branch of _execute_opcode the model translates.  A step
\* on any other opcode is not taken by the model.
ModelledOpcodes ==
    {0, 2, 8, 32, 40, 64, 72, 76, 88, 96, 101, 104, 105, 109, 120, 128, 141,
     169, 173, 225, 229, 232, 233, 234, 237, 253}
        \cup NopImm \cup NopZp \cup NopAbsx \cup UndocNop \cup UnknownOpcodes

\* The value is [c |-> the CPU afterwards, cycles |-> the cycles returned]
_execute_opcode(c_, opcode_) ==
    The({(
        CASE opcode = 169 -> _lda_imm(c)
          [] opcode = 173 -> _lda_abs(c)
          [] opcode = 141 -> _sta_abs(c)
          [] opcode = 128 -> Ret(AdvPc(c, 1), 2)
          [] opcode = 105 -> _adc_imm(c)
          [] opcode = 101 -> _adc_zp(c)
          [] opcode = 109 -> _adc_abs(c)
          [] opcode = 233 -> _sbc_imm(c)
          [] opcode = 229 -> _sbc_zp(c)
          [] opcode = 225 -> SbcIndx(c)
          [] opcode = 237 -> _sbc_abs(c)
          [] opcode = 253 -> SbcAbsx(c)
          [] opcode = 232 -> _inx(c)
          [] opcode = 76 -> _jmp_abs(c)
          [] opcode = 32 -> _jsr_abs(c)
          [] opcode = 96 -> _rts(c)
          [] opcode = 64 -> _rti(c)
          [] opcode = 88 -> Cli(c)
          [] opcode = 120 -> Sei(c)
          [] opcode = 72 -> _pha(c)
          [] opcode = 104 -> _pla(c)
          [] opcode = 8 -> _php(c)
          [] opcode = 40 -> _plp(c)
          [] opcode = 0 -> _brk(c)
          [] opcode = 2 -> Kil(c)
          [] opcode = 234 -> Ret(AdvPc(c, 1), 2)
          [] opcode \in NopImm -> Ret(AdvPc(c, 2), 2)
          [] opcode \in NopZp -> Ret(AdvPc(c, 2), 3)
          [] opcode \in NopAbsx -> Ret(AdvPc(c, 3), 4)
          [] opcode \in UndocNop -> Ret(AdvPc(c, 2), 3)
          [] OTHER -> UnknownOpcode(c)
        ) : c \in {c_}, opcode \in {opcode_}})

---------------------------------------------------------------------------
(* CIA timers, the interrupt service and CPU6502.step.                     *)

\* A timer that misses the underflow when the counter lands exactly on 0
update_MissesZero(t_, cycles_) ==
    The({(
        IF ~t.running THEN [t |-> t, irq |-> FALSE]
        ELSE IF t.input_mode # 0 THEN [t |-> t, irq |-> FALSE]
        ELSE IF t.counter > 0 /\ t.counter - cycles < 0
             THEN IF t.irq_enabled
                  THEN [t |-> [t EXCEPT !.counter = t.latch], irq |-> TRUE]
                  ELSE [t |-> [t EXCEPT !.counter = t.latch,
                                        !.running = IF t.one_shot THEN FALSE ELSE @],
                        irq |-> FALSE]
             ELSE [t |-> [t EXCEPT !.counter = t.counter - cycles], irq |-> FALSE]
        ) : t \in {t_}, cycles \in {cycles_}})

\* CIATimer.update: [t |-> the timer afterwards, irq |-> the value returned]
update(t_, cycles_) ==
    The({(
        IF ~t.running THEN [t |-> t, irq |-> FALSE]
        ELSE IF t.input_mode # 0 THEN [t |-> t, irq |-> FALSE]
        ELSE IF t.counter > 0 /\ t.counter - cycles <= 0
             THEN IF t.irq_enabled
                  THEN [t |-> [t EXCEPT !.counter = t.latch], irq |-> TRUE]
                  ELSE [t |-> [t EXCEPT !.counter = t.latch,
                                        !.running = IF t.one_shot THEN FALSE ELSE @],
                        irq |-> FALSE]
             ELSE [t |-> [t EXCEPT !.counter = t.counter - cycles], irq |-> FALSE]
        ) : t \in {t_}, cycles \in {cycles_}})

\* CIATimer.reset
reset_timer(t_) ==
    The({(
        [t EXCEPT !.counter = t.latch]
        ) : t \in {t_}})

\* cia1_icr |= bit; cia1_icr |= 0x80; pending_irq = True
RaiseIcr(mem, bit) ==
    [mem EXCEPT !.cia1_icr = BitOr(BitOr(@, bit), 128), !.pending_irq = TRUE]

_update_cia_timers(mem_, cycles_) ==
    The({(
        The({ The({ The({ The({(
            IF ub.irq
            THEN [RaiseIcr(m1, 2) EXCEPT !.cia1_timer_b = reset_timer(ub.t)]
            ELSE [m1 EXCEPT !.cia1_timer_b = ub.t]
            ) : ub \in {IF m1.cia1_timer_b.input_mode = 2
                        THEN IF timer_a_underflow
                             THEN update(m1.cia1_timer_b, 1)
                             ELSE [t |-> m1.cia1_timer_b, irq |-> FALSE]
                        ELSE update(m1.cia1_timer_b, cycles)}})
              : timer_a_underflow \in {m1.cia1_timer_a.counter <= 0 /\ m1.cia1_timer_a.running}})
              : m1 \in {IF ua.irq
                        THEN [(IF ua.t.irq_enabled THEN RaiseIcr(mem, 1) ELSE mem)
                                  EXCEPT !.cia1_timer_a = reset_timer(ua.t)]
                        ELSE [mem EXCEPT !.cia1_timer_a = ua.t]}})
              : ua \in {update(mem.cia1_timer_a, cycles)}})
        ) : mem \in {mem_}, cycles \in {cycles_}})

\* The jiffy clock, the 24-bit number at $A0 (low), $A1, $A2 (high)
Jiffy(c_) ==
    The({(
        Rd(c, 160) + Rd(c, 161) * 256 + Rd(c, 162) * 65536
        ) : c \in {c_}})

\* The service routine.  It changes neither cia1_icr nor pending_irq.
_handle_cia_interrupt(c_) ==
    The({(
        IF HasBits(c.memory.cia1_icr, 1)
        THEN The({(
                 Wr(Wr(Wr(c, 160, jiffy % 256), 161, (jiffy \div 256) % 256),
                    162, (jiffy \div 65536) % 256)
                 ) : jiffy \in {Jiffy(c) + 1}})
        ELSE c
        ) : c \in {c_}})

\* A guard that does not look at the I flag
ServiceDue_IgnoresI(c_) ==
    The({(
        c.memory.pending_irq /\ HasBits(c.memory.cia1_icr, 128)
        ) : c \in {c_}})

\* The guard of lines 624-626: the service routine runs
ServiceDue(c_) ==
    The({(
        c.memory.pending_irq /\ ~_get_flag(c, FLAG_I) /\ HasBits(c.memory.cia1_icr, 128)
        ) : c \in {c_}})

\* 312 if video_standard == "pal" else 263
RasterMax(mem) == IF mem.video_standard = "pal" THEN 312 ELSE 263

\* What step does.  path says which branch ran: "stopped", "cint", "chrin",
\* "chrout" or "opcode"; ret is the value returned; serviced says
\* _handle_cia_interrupt was called.
StepResult(c, ret, path, serviced) ==
    [c |-> c, ret |-> ret, path |-> path, serviced |-> serviced]

\* The tail shared by the CHRIN and CHROUT traps: pop the return address,
\* stop when it is $0000, return 20
TrapReturn(c, path_) ==
    The({(
        IF c1.state.pc = 0
        THEN StepResult([c1 EXCEPT !.state.stopped = TRUE], 20, path, FALSE)
        ELSE StepResult(c1, 20, path, FALSE)
        ) : c1 \in {PopReturn(c)}, path \in {path_}})

\* The CINT trap, PC = $FF5B.  sp += 2 is not masked.
StepCint(c) ==
    StepResult([c EXCEPT !.state.pc = 64766, !.state.sp = @ + 2], 1, "cint", FALSE)

\* run_command = b"RUN\x0D", which the first CHRIN on an empty buffer injects
RunCommand == <<82, 85, 78, 13>>

\* kb_buf_ptr of the CHRIN trap: the word at $F7/$F8, or $0277 when it is 0
KbBufPtr(c_) ==
    The({(
        The({(
            IF word = 0 THEN KB_BUF ELSE word
            ) : word \in {BitOr(Rd(c, 247), Rd(c, 248) * 256)}})
        ) : c \in {c_}})

\* CHRIN, line 481: write(0xC6, (kb_buf_len - 1) & 0xFF)
ChrinStoreLen(c, kb_buf_len) == Wr(c, KB_LEN, (kb_buf_len - 1) % 256)

\* CHRIN, lines 482-483: write(kb_buf_ptr, 0); a = char
ChrinClear(c, kb_buf_ptr, char) == [Wr(c, kb_buf_ptr, 0) EXCEPT !.state.a = char]

\* CHRIN with an empty buffer, lines 485-499: the first time the RUN command
\* is put into the buffer; A = 0
ChrinNoInput(c_) ==
    The({(
        LET injected == Wr(Wr(Wr(Wr(Wr([c EXCEPT !.run_injected = TRUE],
                            KB_BUF, RunCommand[1]), KB_BUF + 1, RunCommand[2]),
                            KB_BUF + 2, RunCommand[3]), KB_BUF + 3, RunCommand[4]),
                            KB_LEN, Len(RunCommand))
        IN  [(IF c.run_injected THEN c ELSE injected) EXCEPT !.state.a = 0]
        ) : c \in {c_}})

\* The CHRIN trap, PC = $FFCF
StepChrin(c_) ==
    The({(
        The({ The({(
            TrapReturn(IF kb_buf_len > 0
                       THEN ChrinClear(ChrinStoreLen(c, kb_buf_len), kb_buf_ptr, char)
                       ELSE ChrinNoInput(c), "chrin")
            ) : char \in {Rd(c, kb_buf_ptr)}})
              : kb_buf_len \in {Rd(c, KB_LEN)}, kb_buf_ptr \in {KbBufPtr(c)}})
        ) : c \in {c_}})

\* for addr in range(SCREEN_MEM, SCREEN_MEM + 1000): write(addr, 0x20)
ClearScreen(c_) ==
    The({(
        LET Screen == SCREEN_MEM..(SCREEN_MEM + 999)
            k == c.memory.kernal_rom
            keep == (DOMAIN c.memory.ram) \ Screen
            diff == {a \in Screen : BootByte(a, k) # 32}
        IN  [c EXCEPT !.memory.ram =
                [a \in keep \cup diff |-> IF a \in Screen THEN 32 ELSE c.memory.ram[a]]]
        ) : c \in {c_}})

\* The CHROUT trap, PC = $FFD2
StepChrout(c_) ==
    The({(
        The({ The({ The({ The({(
            TrapReturn(Wr(Wr(c1, 209, cursor % 256), 210, (cursor \div 256) % 256), "chrout")
            ) : c1 \in {IF char = 13 THEN c
                        ELSE IF char = 147 THEN ClearScreen(c)
                        ELSE Wr(c, cursor_addr, char)},
                cursor \in {IF char = 13 THEN SCREEN_MEM + row * 40
                            ELSE IF char = 147 THEN SCREEN_MEM
                            ELSE next}})
              : row \in {(((cursor_addr - SCREEN_MEM) \div 40) + 1) % 25},
                next \in {IF cursor_addr + 1 >= SCREEN_MEM + 1000
                          THEN SCREEN_MEM ELSE cursor_addr + 1}})
              : cursor_addr \in {IF word < SCREEN_MEM \/ word >= SCREEN_MEM + 1000
                                 THEN SCREEN_MEM ELSE word}})
              : char \in {c.state.a}, word \in {BitOr(Rd(c, 209), Rd(c, 210) * 256)}})
        ) : c \in {c_}})

\* A step that checks for the interrupt before it ticks the timers
StepOpcode_ServiceFirst(c, opcode_) ==
    The({(
        The({ The({ The({ The({(
            StepResult([c3 EXCEPT !.memory.raster_line = (@ + 1) % RasterMax(c3.memory)],
                       r.cycles, "opcode", ServiceDue(c1))
            ) : c3 \in {[c2 EXCEPT !.memory = _update_cia_timers(@, r.cycles)]}})
              : c2 \in {IF ServiceDue(c1) THEN _handle_cia_interrupt(c1) ELSE c1}})
              : c1 \in {[r.c EXCEPT !.state.cycles = @ + r.cycles]}})
              : r \in {_execute_opcode(c, opcode)}})
        ) : opcode \in {opcode_}})

\* The ordinary path, lines 610-630
StepOpcode(c, opcode_) ==
    The({(
        The({ The({ The({ The({(
            IF ServiceDue(c3)
            THEN StepResult(_handle_cia_interrupt(c3), r.cycles, "opcode", TRUE)
            ELSE StepResult(c3, r.cycles, "opcode", FALSE)
            ) : c3 \in {[c2 EXCEPT !.memory.raster_line = (@ + 1) % RasterMax(c2.memory)]}})
              : c2 \in {[c1 EXCEPT !.memory = _update_cia_timers(@, r.cycles)]}})
              : c1 \in {[r.c EXCEPT !.state.cycles = @ + r.cycles]}})
              : r \in {_execute_opcode(c, opcode)}})
        ) : opcode \in {opcode_}})

\* step after the fetch (lines 449-630), with its locals pc and opcode
Dispatch(c_, pc_, opcode) ==
    The({(
        IF pc = ADDR_CINT THEN StepCint(c)
        ELSE IF pc = ADDR_CHRIN THEN StepChrin(c)
        ELSE IF pc = ADDR_CHROUT THEN StepChrout(c)
        ELSE StepOpcode(c, opcode)
        ) : c \in {c_}, pc \in {pc_}})

\* CPU6502.step
step(c_) ==
    The({(
        IF c.state.stopped THEN StepResult(c, 1, "stopped", FALSE)
        ELSE Dispatch(Ack(c, c.state.pc), c.state.pc, Rd(c, c.state.pc))
        ) : c \in {c_}})

\* step can be followed by the model: the opcode fetched is one the model
\* translates, and neither it nor its operand comes from the I/O window
CanStep(c_) ==
    The({(
        \/ c.state.stopped
        \/ c.state.pc \in {ADDR_CINT, ADDR_CHRIN, ADDR_CHROUT}
        \/ /\ \A k \in 0..2 : ~InCharWindow((c.state.pc + k) % 65536)
           /\ Rd(c, c.state.pc) \in ModelledOpcodes
        ) : c \in {c_}})

---------------------------------------------------------------------------
(* The machine after construction.                                         *)

\* cpu_hz // 60 of _initialize_c64
JiffyCycles(video_standard) == IF video_standard = "pal" THEN 1022727 \div 60 ELSE 985248 \div 60

\* The MemoryMap after C64Emulator() and load_roms(): basic, kernal and char
\* say which ROM files were found.  ram holds no difference from BootByte.
BootMemory(basic, kernal, char, video_standard_) ==
    The({(
        [ram |-> [x \in {} |-> 0],
         basic_rom |-> basic, kernal_rom |-> kernal, char_rom |-> char,
         cia1_timer_a |-> [NewTimer EXCEPT !.latch = JiffyCycles(video_standard),
                                           !.counter = JiffyCycles(video_standard),
                                           !.running = TRUE, !.irq_enabled = TRUE],
         cia1_timer_b |-> NewTimer,
         cia1_icr |-> 0, pending_irq |-> FALSE,
         video_standard |-> video_standard, raster_line |-> 300,
         has_vic_regs |-> FALSE, vic_regs |-> [x \in {} |-> 0]]
        ) : video_standard \in {video_standard_}})

\* The CPU6502 after load_roms(): PC from the reset vector
BootCpu(basic, kernal, char, video_standard) ==
    LET c == [state |-> NewCPUState,
              memory |-> BootMemory(basic, kernal, char, video_standard),
              run_injected |-> FALSE]
    IN  [c EXCEPT !.state.pc = _read_word(c, 65532)]

---------------------------------------------------------------------------
(* State.                                                                  *)

VARIABLES
    cpu,    \* the CPU6502 object with its CPUState and MemoryMap
    last,   \* history: the operation performed last, its arguments and result
    obs,    \* history: running counts kept for the properties
    thr     \* the position of each thread inside its handler

vars == <<cpu, last, obs, thr>>

NoValue == 0 - 1
\* stands for "no value" in a history field

\* The history record of one operation; pre is the CPU object before it
Hist(op, addr, value, ret, path, serviced, pre) ==
    [op |-> op, addr |-> addr, value |-> value, ret |-> ret, path |-> path,
     serviced |-> serviced, pre |-> pre]

NoHist(c) == Hist("none", NoValue, NoValue, NoValue, "none", FALSE, c)

\* ticked: cycles handed to the CIA timers; underflows: Timer A underflows;
\* services: calls of _handle_cia_interrupt; steps: step() calls; keys: key
\* events handled; injected: the bytes the key handler put into the buffer;
\* delivered: the value of A after each CHRIN trap; chrins: CHRIN traps run;
\* pending: the bytes put into the buffer (typed, or the injected RUN command)
\* and neither taken back by a backspace nor consumed by a CHRIN; disturbed: a key arrived after a CHRIN, or a
\* backspace was handled; commands: SYS commands handled; jsr_at, jsr_sp: PC
\* and SP before the JSR stepped last; host_stopped: the host cleared the
\* running flag while a run loop was in progress; after_stop: the steps that
\* loop began after that; origin: the CPUState the steps started from
NoObs ==
    [ticked |-> 0, underflows |-> 0, services |-> 0, steps |-> 0, keys |-> 0,
     injected |-> <<>>, delivered |-> <<>>, chrins |-> 0, pending |-> <<>>,
     disturbed |-> FALSE, commands |-> 0, jsr_at |-> NoValue, jsr_sp |-> NoValue,
     host_stopped |-> FALSE, after_stop |-> 0, origin |-> NoValue]

\* emu, host: where the emulation thread and the host (UI or server) thread
\* stand; the other fields are the locals of the handler each is inside.
\* loop: the run loop in progress ("run" is C64Emulator.run, "server" the RUN
\* command), running: C64Emulator.running, and the locals of that loop
NoThreads ==
    [emu |-> "idle", host |-> "idle",
     pc |-> NoValue, opcode |-> NoValue, kb_buf_len |-> NoValue,
     kb_buf_ptr |-> NoValue, char |-> NoValue,
     host_len |-> NoValue, petscii_code |-> NoValue, sys_addr |-> NoValue,
     loop |-> "none", running |-> FALSE, cycles |-> 0, max_cycles |-> 0,
     last_pc |-> NoValue, stuck_count |-> 0, stop_reason |-> "none"]

---------------------------------------------------------------------------
(* SpecBus: the bus driven through the WRITE and MEMORY commands of the    *)
(* control server (memory.write, memory.read).                             *)

\* $01 (banking register), BASIC window, SID / character window, KERNAL window
BusAddrs == {1, 40960, 54272, 57344}

\* $33: I/O, no ROM; $34: neither; $37: ROM and I/O
BusValues == {51, 52, 55}

InitBus ==
    /\ \E roms \in BOOLEAN : cpu = BootCpu(roms, roms, roms, "pal")
    /\ last = NoHist(cpu)
    /\ obs = NoObs
    /\ thr = NoThreads

\* WRITE addr value: self.emu.memory.write(addr, value)
BusWrite(addr, value) ==
    /\ cpu' = Wr(cpu, addr, value)
    /\ last' = Hist("write", addr, value, NoValue, "none", FALSE, cpu)
    /\ UNCHANGED <<obs, thr>>

\* MEMORY addr: value = self.emu.memory.read(addr).  The history keeps the
\* byte written when the operation before was a write to the same address.
BusRead(addr) ==
    /\ ~read_raises(cpu.memory, addr)
    /\ cpu' = Ack(cpu, addr)
    /\ last' = Hist("read", addr,
                    IF last.op = "write" /\ last.addr = addr THEN last.value ELSE NoValue,
                    Rd(cpu, addr), "none", FALSE, cpu)
    /\ UNCHANGED <<obs, thr>>

DoBusWrite == \E addr \in BusAddrs, value \in BusValues : BusWrite(addr, value)
DoBusRead == \E addr \in BusAddrs : BusRead(addr)

NextBus == DoBusWrite \/ DoBusRead

SpecBus == InitBus /\ [][NextBus]_vars

\* A read that directly follows a write of the same address
ReadAfterWrite == last.op = "read" /\ last.value # NoValue

\* C1 as stated: after write_mem(A, v), read_mem(A) returns v if and only if no
\* ROM image is mapped at A, and with a ROM image mapped the read returns the
\* ROM byte while v is in the RAM underneath.
C1_AsStated ==
    ReadAfterWrite =>
        /\ (last.ret = last.value) <=> ~RomMapped(last.pre.memory, last.addr)
        /\ RomMapped(last.pre.memory, last.addr) =>
                /\ last.ret = RomByte(last.addr)
                /\ dump_memory(cpu.memory, last.addr) = last.value

\* C1, amended: for every address A the I/O registers do not answer, after
\* write_mem(A, v) the read returns v when no ROM image is mapped at A, and
\* returns the ROM byte when one is; in both cases v is the RAM byte at A.
C1_WriteRead ==
    (ReadAfterWrite /\ ~IoMapped(last.pre.memory, last.addr)) =>
        /\ last.ret = IF RomMapped(last.pre.memory, last.addr)
                      THEN RomByte(last.addr) ELSE last.value
        /\ dump_memory(cpu.memory, last.addr) = last.value

\* A byte was written under a mapped ROM image and read back as the ROM byte
C1_Witness ==
    /\ ReadAfterWrite
    /\ RomMapped(last.pre.memory, last.addr)
    /\ last.ret # last.value
    /\ dump_memory(cpu.memory, last.addr) = last.value

---------------------------------------------------------------------------
(* SpecCpu: a machine-language program stepped by the host.                *)

\* C64Emulator.load_prg past the two-byte header: the bytes of prg_data are
\* written from load_addr on, in their order (the first half of data, then
\* the second half from where the first ended)
RECURSIVE WriteBytes(_, _, _)
WriteBytes(c_, addr_, data_) ==
    The({(
        IF n = 0 THEN c
        ELSE IF n = 1 THEN Wr(c, addr % 65536, Head(data))
        ELSE WriteBytes(WriteBytes(c, addr, SubSeq(data, 1, n \div 2)),
                        addr + n \div 2, SubSeq(data, n \div 2 + 1, n))
        ) : c \in {c_}, addr \in {addr_}, data \in {data_}, n \in {Len(data_)}})

load_prg(c, load_addr_, prg_data_) ==
    The({(
        The({(
            IF load_addr = 2049
            THEN [c1 EXCEPT !.memory =
                    RamSet(RamSet(RamSet(RamSet(@, 43, 1), 44, 8), 45, end_addr % 256),
                           46, (end_addr \div 256) % 256)]
            ELSE c1
            ) : c1 \in {WriteBytes(c, load_addr, prg_data)},
                end_addr \in {load_addr + Len(prg_data)}})
        ) : load_addr \in {load_addr_}, prg_data \in {prg_data_}})

\* The SYS command of the control server: cpu.state.pc = addr & 0xFFFF
sys(c, addr) == [c EXCEPT !.state.pc = addr % 65536]

\* Timer A programmed through the bus: stop it (CRA = 0), write the latch
\* (which a stopped timer mirrors into its counter), start it (CRA = 1)
ProgramTimerA(c, latch_) ==
    The({(
        Wr(Wr(Wr(Wr(c, CIA1_BASE + 14, 0), CIA1_BASE + 4, latch % 256),
              CIA1_BASE + 5, latch \div 256), CIA1_BASE + 14, 1)
        ) : latch \in {latch_}})

ProgBase == 12 * 4096
\* $C000, where the programs are loaded

MaxLatch == 4
MaxSteps == 10

\* The programs.  Each is loaded at ProgBase and started there.
\*   1  CLI; NOP; INX; JMP $C001              interrupts enabled, looping
\*   2  SEI; NOP; NOP $xx; JMP $C001          interrupts disabled, looping
\*   3  LDA #$41; JSR $FFD2; JSR $FFCF; JSR $FF5B     the three traps
\*   4  NOP; KIL                               halts
\*   5  INX; $01                               an opcode no branch names
\*   6  CLI; LDA $DC0D; NOP; JMP $C001        acknowledges the ICR
Programs ==
    << <<88, 234, 232, 76, 1, 192>>,
       <<120, 234, 4, 0, 76, 1, 192>>,
       <<169, 65, 32, 210, 255, 32, 207, 255, 32, 91, 255>>,
       <<234, 2>>,
       <<232, 1>>,
       <<88, 173, 13, 220, 234, 76, 1, 192>> >>

InitCpu ==
    /\ \E i \in 1..Len(Programs), latch \in 1..MaxLatch :
          cpu = sys(load_prg(ProgramTimerA(BootCpu(TRUE, TRUE, TRUE, "pal"), latch),
                             ProgBase, Programs[i]), ProgBase)
    /\ last = NoHist(cpu)
    /\ obs = NoObs
    /\ thr = NoThreads

\* The cycles the step with result r hands to _update_cia_timers (none on a
\* trap or a stopped step)
TickedBy(r) == IF r.path = "opcode" THEN r.ret ELSE 0

\* Timer A underflows in the step at c: its counter, as the instruction left
\* it, goes from positive to <= 0
UnderflowsIn(c, opcode, path) ==
    The({(
        /\ path = "opcode"
        /\ The({(
               t.running /\ t.input_mode = 0 /\ t.counter > 0 /\ t.counter - r.cycles <= 0
               ) : t \in {r.c.memory.cia1_timer_a}})
        ) : r \in {_execute_opcode(c, opcode)}})

\* The counts after the step at c that fetched opcode and whose result is r
Observe(c_, opcode_, r_) ==
    The({(
        [obs EXCEPT
            !.ticked = @ + TickedBy(r),
            !.underflows = @ + (IF UnderflowsIn(c, opcode, r.path) THEN 1 ELSE 0),
            !.jsr_at = IF r.path = "opcode" /\ opcode = 32 THEN c.state.pc ELSE @,
            !.jsr_sp = IF r.path = "opcode" /\ opcode = 32 THEN c.state.sp ELSE @,
            !.services = @ + (IF r.serviced THEN 1 ELSE 0),
            !.steps = @ + 1,
            !.delivered = IF chrin THEN Append(@, r.c.state.a) ELSE @,
            !.chrins = IF chrin THEN @ + 1 ELSE @,
            !.pending = IF ~chrin THEN @
                        ELSE IF @ # <<>> THEN Tail(@)
                        ELSE IF ~c.run_injected THEN RunCommand
                        ELSE @]
        ) : c \in {c_}, opcode \in {opcode_}, r \in {r_}, chrin \in {r_.path = "chrin"}})

\* STEP: self.emu.cpu.step()
Step ==
    /\ obs.steps < MaxSteps
    /\ CanStep(cpu)
    /\ \E r \in {step(cpu)}, opcode \in {Rd(cpu, cpu.state.pc)} :
          /\ cpu' = r.c
          /\ last' = Hist("step", cpu.state.pc, opcode, r.ret, r.path, r.serviced, cpu)
          /\ obs' = Observe(Ack(cpu, cpu.state.pc), opcode, r)
    /\ UNCHANGED thr

\* MEMORY DC0D: self.emu.memory.read(0xDC0D)
ReadIcr ==
    /\ cpu' = Ack(cpu, ADDR_ICR)
    /\ last' = Hist("read", ADDR_ICR, NoValue, Rd(cpu, ADDR_ICR), "none", FALSE, cpu)
    /\ UNCHANGED <<obs, thr>>

NextCpu == Step \/ ReadIcr

SpecCpu == InitCpu /\ [][NextCpu]_vars

StepDone == last.op = "step"

\* The cycles the last step added to the cycle counter
CyclesAdded == cpu.state.cycles - last.pre.state.cycles

\* C2: the cycle counter never decreases, and a step adds between 1 and 8
\* cycles to it, or 0 exactly when the CPU is stopped (a stopped CPU, or the
\* KIL / unknown-opcode step that stops it).
C2_CyclesPerStep ==
    StepDone =>
        /\ CyclesAdded \in 0..8
        /\ (CyclesAdded = 0) <=> cpu.state.stopped

\* A trap step has run on a CPU that is not stopped
C2_TrapStep == StepDone /\ last.path \in {"chrin", "chrout", "cint"} /\ ~cpu.state.stopped

\* The cycles the last step handed to the CIA timers
LastTicks == IF StepDone /\ last.path = "opcode" THEN last.ret ELSE 0

\* The Timer A latch L; SpecCpu never changes it after Init
LatchA == cpu.memory.cia1_timer_a.latch

IcrHas(c, bits_) ==
    The({(
        BitAnd(c.memory.cia1_icr, bits) = bits
        ) : bits \in {bits_}})

\* C3: Timer A with latch L >= 1, counter = L, running, IRQ enabled, continuous.
\* While fewer than L cycles have been ticked ICR bit 0 is clear; the step whose
\* ticks bring the total to L sets ICR bits 0 and 7 and asserts pending-IRQ; a
\* read of $DC0D that finds the Timer A bit returns $81 and leaves ICR = 0 and
\* pending-IRQ de-asserted.
C3_TimerAUnderflow ==
    /\ obs.ticked < LatchA => ~IcrHas(cpu, 1)
    /\ (StepDone /\ obs.ticked - LastTicks < LatchA /\ obs.ticked >= LatchA) =>
            IcrHas(cpu, 129) /\ cpu.memory.pending_irq
    /\ (last.op = "read" /\ last.addr = ADDR_ICR /\ IcrHas(last.pre, 1)) =>
            /\ last.ret = 129
            /\ cpu.memory.cia1_icr = 0
            /\ ~cpu.memory.pending_irq

\* Exactly L cycles were ticked, and the read of $DC0D that followed returned $81
C3_Witness ==
    /\ obs.ticked = LatchA
    /\ last.op = "read" /\ last.ret = 129
    /\ cpu.memory.cia1_icr = 0 /\ ~cpu.memory.pending_irq

\* C4: each Timer A underflow is serviced once, so the jiffy counter (0 at
\* reset) never exceeds the number of Timer A underflows.
C4_JiffyPerUnderflow == Jiffy(cpu) <= obs.underflows

\* An underflow has been serviced with the I flag clear
C4_Serviced == StepDone /\ last.serviced /\ obs.underflows >= 1

\* C5: a step services an interrupt only if, at the point of the check, the I
\* flag is clear and pending-IRQ is asserted; a step that ends with I = 1
\* services nothing and leaves the jiffy counter alone.
C5_ServiceGated ==
    StepDone =>
        /\ last.serviced => (~_get_flag(cpu, FLAG_I) /\ cpu.memory.pending_irq)
        /\ _get_flag(cpu, FLAG_I) => (~last.serviced /\ Jiffy(cpu) = Jiffy(last.pre))

\* A step ran with I = 1 while ICR bit 7 and pending-IRQ were set, and
\* serviced nothing
C5_Witness ==
    /\ StepDone /\ last.path = "opcode"
    /\ _get_flag(cpu, FLAG_I)
    /\ cpu.memory.pending_irq /\ IcrHas(cpu, 128)
    /\ ~last.serviced

---------------------------------------------------------------------------
(* SpecKbd: the key handler of the UI (c64py/ui.py, on_key) and a program  *)
(* that calls CHRIN in a loop.  Here each handler runs to completion.      *)

\* TextualInterface._ascii_to_petscii, on the code point of the character
_ascii_to_petscii(ascii_code_) ==
    The({(
        IF ascii_code >= 32 /\ ascii_code <= 95 THEN ascii_code
        ELSE IF ascii_code >= 97 /\ ascii_code <= 122 THEN ascii_code - 32
        ELSE IF ascii_code = 13 \/ ascii_code = 10 THEN 13
        ELSE ascii_code % 256
        ) : ascii_code \in {ascii_code_}})

\* The cursor address _echo_character and _handle_backspace start from
CursorAddr(c_) ==
    The({(
        IF word < SCREEN_MEM \/ word >= SCREEN_MEM + 1000 THEN SCREEN_MEM ELSE word
        ) : word \in {BitOr(Rd(c_, 209), Rd(c_, 210) * 256)}})

\* Store the cursor: $D1/$D2 and the row and column at $D3 and $D8
SetCursor(c, cursor_addr_) ==
    The({(
        Wr(Wr(Wr(Wr(c, 209, cursor_addr % 256), 210, (cursor_addr \div 256) % 256),
              211, (cursor_addr - SCREEN_MEM) \div 40), 216, (cursor_addr - SCREEN_MEM) % 40)
        ) : cursor_addr \in {cursor_addr_}})

\* The branches of _echo_character the model translates: a carriage return
\* above the bottom row, and a character that does not end the screen
EchoModelled(c_, petscii_code_) ==
    The({(
        IF petscii_code = 13 THEN (CursorAddr(c) - SCREEN_MEM) \div 40 < 24
        ELSE petscii_code \notin {10, 147} /\ CursorAddr(c) + 1 < SCREEN_MEM + 1000
        ) : c \in {c_}, petscii_code \in {petscii_code_}})

_echo_character(c_, petscii_code_) ==
    The({(
        IF petscii_code = 13
        THEN SetCursor(c, SCREEN_MEM + (((cursor_addr - SCREEN_MEM) \div 40) + 1) * 40)
        ELSE SetCursor(Wr(c, cursor_addr, petscii_code), cursor_addr + 1)
        ) : c \in {c_}, petscii_code \in {petscii_code_}, cursor_addr \in {CursorAddr(c_)}})

_handle_backspace(c_) ==
    The({(
        IF cursor_addr <= SCREEN_MEM THEN c
        ELSE IF (cursor_addr - 1 - SCREEN_MEM) % 40 = 39 /\ cursor_addr - 1 > SCREEN_MEM THEN c
        ELSE SetCursor(Wr(c, cursor_addr - 1, 32), cursor_addr - 1)
        ) : c \in {c_}, cursor_addr \in {CursorAddr(c_)}})

\* on_key, a printable character or Enter: the byte goes to the end of the
\* buffer when fewer than 10 are held
KeyStore(c, kb_buf_len, petscii_code) == Wr(c, KB_BUF + kb_buf_len, petscii_code)

KeyCommit(c, kb_buf_len, petscii_code) ==
    _echo_character(Wr(c, KB_LEN, kb_buf_len + 1), petscii_code)

\* A key handler that does not look at the buffer length
PutKey_NoLimit(c_, petscii_code_) ==
    The({(
        KeyCommit(KeyStore(c, kb_buf_len, petscii_code), kb_buf_len, petscii_code)
        ) : c \in {c_}, petscii_code \in {petscii_code_}, kb_buf_len \in {Rd(c_, KB_LEN)}})

PutKey(c_, petscii_code_) ==
    The({(
        IF kb_buf_len < 10
        THEN KeyCommit(KeyStore(c, kb_buf_len, petscii_code), kb_buf_len, petscii_code)
        ELSE c
        ) : c \in {c_}, petscii_code \in {petscii_code_}, kb_buf_len \in {Rd(c_, KB_LEN)}})

\* on_key, Backspace
TakeBack(c_) ==
    The({(
        _handle_backspace(IF kb_buf_len > 0
                          THEN Wr(Wr(c, KB_BUF + kb_buf_len - 1, 0), KB_LEN, kb_buf_len - 1)
                          ELSE c)
        ) : c \in {c_}, kb_buf_len \in {Rd(c_, KB_LEN)}})

MaxKeys == 3

\* The characters typed: "A" and "b"
KeyChars == {65, 98}

\* JSR $FFCF; JMP $C000
ChrinLoop == <<32, 207, 255, 76, 0, 192>>

InitKbd ==
    /\ cpu = sys(load_prg(BootCpu(TRUE, TRUE, TRUE, "pal"), ProgBase, ChrinLoop), ProgBase)
    /\ last = NoHist(cpu)
    /\ obs = NoObs
    /\ thr = NoThreads

ObserveKey(petscii_code_) ==
    The({(
        [obs EXCEPT
            !.keys = @ + 1,
            !.injected = IF Rd(cpu, KB_LEN) < 10 THEN Append(@, petscii_code) ELSE @,
            !.pending = IF Len(@) < 10 THEN Append(@, petscii_code) ELSE @,
            !.disturbed = @ \/ obs.chrins > 0]
        ) : petscii_code \in {petscii_code_}})

KeyPress(ascii_code) ==
    /\ obs.keys < MaxKeys
    /\ \E petscii_code \in {_ascii_to_petscii(ascii_code)} :
          /\ EchoModelled(cpu, petscii_code)
          /\ cpu' = PutKey(cpu, petscii_code)
          /\ last' = Hist("key", NoValue, petscii_code, NoValue, "none", FALSE, cpu)
          /\ obs' = ObserveKey(petscii_code)
    /\ UNCHANGED thr

DoKeyPress == \E ascii_code \in KeyChars : KeyPress(ascii_code)

Enter ==
    /\ obs.keys < MaxKeys
    /\ EchoModelled(cpu, 13)
    /\ cpu' = PutKey(cpu, 13)
    /\ last' = Hist("key", NoValue, 13, NoValue, "none", FALSE, cpu)
    /\ obs' = ObserveKey(13)
    /\ UNCHANGED thr

Backspace ==
    /\ obs.keys < MaxKeys
    /\ cpu' = TakeBack(cpu)
    /\ last' = Hist("backspace", NoValue, NoValue, NoValue, "none", FALSE, cpu)
    /\ obs' = [obs EXCEPT !.keys = @ + 1,
                          !.pending = IF @ # <<>> THEN SubSeq(@, 1, Len(@) - 1) ELSE @,
                          !.disturbed = TRUE]
    /\ UNCHANGED thr

NextKbd == Step \/ DoKeyPress \/ Enter \/ Backspace

SpecKbd == InitKbd /\ [][NextKbd]_vars

\* The keys k1..kn went into the empty buffer before the first CHRIN, no
\* backspace was handled, and at most n CHRIN traps have run
FifoScenario == ~obs.disturbed /\ obs.chrins <= Len(obs.injected)

\* C6: keys k1..kn injected into an empty buffer, then CHRIN traps: the i-th
\* CHRIN returns ki in A, and after each the buffer holds the remaining keys
\* shifted to its start with their number in $C6 (0 after the n-th).
C6_Fifo ==
    FifoScenario =>
        /\ \A i \in 1..obs.chrins : obs.delivered[i] = obs.injected[i]
        /\ Rd(cpu, KB_LEN) = Len(obs.injected) - obs.chrins
        /\ \A j \in 1..(Len(obs.injected) - obs.chrins) :
                Rd(cpu, KB_BUF + j - 1) = obs.injected[obs.chrins + j]

\* Two keys were injected and a CHRIN trap has returned the first
C6_Scenario ==
    /\ FifoScenario /\ Len(obs.injected) >= 2 /\ obs.chrins >= 1
    /\ obs.delivered[1] = obs.injected[1]

\* C7: $C6 is at most 10 and the pending characters are exactly the bytes at
\* $0277 .. $0277 + $C6 - 1.
C7_BufferHoldsPending ==
    /\ Rd(cpu, KB_LEN) <= 10
    /\ Rd(cpu, KB_LEN) = Len(obs.pending)
    /\ \A j \in 1..Len(obs.pending) : Rd(cpu, KB_BUF + j - 1) = obs.pending[j]

\* A key is pending after injections, a backspace and a CHRIN trap
C7_Scenario ==
    /\ obs.chrins >= 1 /\ obs.pending # <<>> /\ last.op = "backspace"

---------------------------------------------------------------------------
(* SpecKeys: the emulation thread (_run_emulator, calling step in a loop)  *)
(* and the UI thread (on_key) run concurrently, with no lock.  The CHRIN   *)
(* trap and the key handler are followed bus access by bus access: a       *)
(* thread switch can fall between any two of them.                         *)

InitKeys == InitKbd

MaxRaceSteps == 5
MaxRaceKeys == 2

\* The emulation thread steps an instruction that is not the CHRIN trap
EmuStep ==
    /\ thr.emu = "idle"
    /\ cpu.state.pc # ADDR_CHRIN
    /\ obs.steps < MaxRaceSteps
    /\ Step

\* CHRIN, line 472: kb_buf_len = read(0xC6)
ChrinBegin ==
    /\ thr.emu = "idle"
    /\ obs.steps < MaxRaceSteps
    /\ ~cpu.state.stopped
    /\ cpu.state.pc = ADDR_CHRIN
    /\ thr' = [thr EXCEPT !.emu = "chrin_len", !.kb_buf_len = Rd(cpu, KB_LEN)]
    /\ last' = Hist("chrin_len", ADDR_CHRIN, NoValue, NoValue, "chrin", FALSE, cpu)
    /\ UNCHANGED <<cpu, obs>>

\* CHRIN, lines 475-481: kb_buf_ptr, char = read(kb_buf_ptr), write(0xC6, ...)
ChrinTake ==
    /\ thr.emu = "chrin_len"
    /\ thr.kb_buf_len > 0
    /\ cpu' = ChrinStoreLen(cpu, thr.kb_buf_len)
    /\ \E kb_buf_ptr \in {KbBufPtr(cpu)} :
          thr' = [thr EXCEPT !.emu = "chrin_clear", !.kb_buf_ptr = kb_buf_ptr,
                             !.char = Rd(cpu, kb_buf_ptr)]
    /\ last' = Hist("chrin_take", ADDR_CHRIN, NoValue, NoValue, "chrin", FALSE, cpu)
    /\ UNCHANGED obs

ObserveChrin(c, took) ==
    [obs EXCEPT !.steps = @ + 1,
                !.chrins = @ + 1,
                !.delivered = Append(@, c.state.a),
                !.pending = IF took THEN (IF @ # <<>> THEN Tail(@) ELSE @)
                            ELSE IF ~cpu.run_injected THEN @ \o RunCommand
                            ELSE @]

\* CHRIN, lines 482-531: write(kb_buf_ptr, 0), a = char, the forged RTS
ChrinFinish ==
    /\ thr.emu = "chrin_clear"
    /\ \E r \in {TrapReturn(ChrinClear(cpu, thr.kb_buf_ptr, thr.char), "chrin")} :
          /\ cpu' = r.c
          /\ last' = Hist("step", ADDR_CHRIN, NoValue, r.ret, r.path, r.serviced, cpu)
          /\ obs' = ObserveChrin(r.c, TRUE)
    /\ thr' = [thr EXCEPT !.emu = "idle", !.kb_buf_len = NoValue,
                          !.kb_buf_ptr = NoValue, !.char = NoValue]

\* CHRIN with kb_buf_len = 0, lines 485-531
ChrinIdle ==
    /\ thr.emu = "chrin_len"
    /\ thr.kb_buf_len = 0
    /\ \E r \in {TrapReturn(ChrinNoInput(cpu), "chrin")} :
          /\ cpu' = r.c
          /\ last' = Hist("step", ADDR_CHRIN, NoValue, r.ret, r.path, r.serviced, cpu)
          /\ obs' = ObserveChrin(r.c, FALSE)
    /\ thr' = [thr EXCEPT !.emu = "idle", !.kb_buf_len = NoValue]

\* on_key, lines 518-522: petscii_code, kb_buf_len = read(0xC6)
KeyBegin(ascii_code) ==
    /\ thr.host = "idle"
    /\ obs.keys < MaxRaceKeys
    /\ thr' = [thr EXCEPT !.host = "key_len", !.host_len = Rd(cpu, KB_LEN),
                          !.petscii_code = _ascii_to_petscii(ascii_code)]
    /\ last' = Hist("key_len", NoValue, _ascii_to_petscii(ascii_code), NoValue, "none", FALSE, cpu)
    /\ obs' = [obs EXCEPT !.keys = @ + 1]
    /\ UNCHANGED cpu

DoKeyBegin == \E ascii_code \in KeyChars : KeyBegin(ascii_code)

\* on_key, lines 525-527: write(kb_buf_base + kb_buf_len, petscii_code)
KeyPut ==
    /\ thr.host = "key_len"
    /\ thr.host_len < 10
    /\ cpu' = KeyStore(cpu, thr.host_len, thr.petscii_code)
    /\ thr' = [thr EXCEPT !.host = "key_stored"]
    /\ last' = Hist("key_store", NoValue, thr.petscii_code, NoValue, "none", FALSE, cpu)
    /\ UNCHANGED obs

\* on_key, lines 528-532: kb_buf_len += 1, write(0xC6, kb_buf_len), the echo
KeyDone ==
    /\ thr.host = "key_stored"
    /\ EchoModelled(cpu, thr.petscii_code)
    /\ cpu' = KeyCommit(cpu, thr.host_len, thr.petscii_code)
    /\ thr' = [thr EXCEPT !.host = "idle", !.host_len = NoValue, !.petscii_code = NoValue]
    /\ last' = Hist("key", NoValue, thr.petscii_code, NoValue, "none", FALSE, cpu)
    /\ obs' = [obs EXCEPT !.injected = Append(@, thr.petscii_code),
                          !.pending = Append(@, thr.petscii_code)]

NextKeys ==
    \/ EmuStep
    \/ ChrinBegin
    \/ ChrinTake
    \/ ChrinFinish
    \/ ChrinIdle
    \/ DoKeyBegin
    \/ KeyPut
    \/ KeyDone

SpecKeys == InitKeys /\ [][NextKeys]_vars

\* Neither thread is inside its handler
Quiescent == thr.emu = "idle" /\ thr.host = "idle"

\* C8: the updates of the two threads are sequenced, so whenever neither is
\* inside its handler $C6 equals the number of bytes put into the buffer and
\* not yet consumed.
C8_Sequenced == Quiescent => Rd(cpu, KB_LEN) = Len(obs.pending)

\* A key handler and a CHRIN trap have overlapped and both have finished
C8_Overlap ==
    /\ Quiescent
    /\ obs.chrins >= 1 /\ Len(obs.injected) >= 1
    /\ Rd(cpu, KB_LEN) # Len(obs.pending)

\* When the handlers run one after the other (SpecKbd) the count is kept
SequentialCount == Rd(cpu, KB_LEN) = Len(obs.pending)

---------------------------------------------------------------------------
(* SpecSys: the emulation thread runs step in a loop while a client of the *)
(* control server sends SYS commands; the server handles each command on   *)
(* its own thread (_handle_tcp_client), with no lock.  step is followed in *)
(* two parts: the fetch of pc and opcode, and the rest.                    *)

\* NOP; JMP $C000; INX; JMP $C004
SysLoop == <<234, 76, 0, 192, 232, 76, 4, 192>>

\* The addresses the client sends
SysAddrs == {ProgBase, ProgBase + 4}

MaxSysSteps == 4
MaxCommands == 2

InitSys ==
    /\ cpu = sys(load_prg(BootCpu(TRUE, TRUE, TRUE, "pal"), ProgBase, SysLoop), ProgBase)
    /\ last = NoHist(cpu)
    /\ obs = NoObs
    /\ thr = NoThreads

\* step, lines 427-432: pc = self.state.pc; opcode = self.memory.read(pc)
EmuFetch ==
    /\ thr.emu = "idle"
    /\ obs.steps < MaxSysSteps
    /\ ~cpu.state.stopped
    /\ CanStep(cpu)
    /\ cpu' = Ack(cpu, cpu.state.pc)
    /\ thr' = [thr EXCEPT !.emu = "fetched", !.pc = cpu.state.pc,
                          !.opcode = Rd(cpu, cpu.state.pc), !.sys_addr = NoValue]
    /\ last' = Hist("fetch", cpu.state.pc, Rd(cpu, cpu.state.pc), NoValue, "none", FALSE, cpu)
    /\ UNCHANGED obs

\* step from line 449 on, with the pc and opcode fetched
EmuExec ==
    /\ thr.emu = "fetched"
    /\ \E r \in {Dispatch(cpu, thr.pc, thr.opcode)} :
          /\ cpu' = r.c
          /\ last' = Hist("step", thr.pc, thr.opcode, r.ret, r.path, r.serviced, cpu)
          /\ obs' = Observe(cpu, thr.opcode, r)
    /\ thr' = [thr EXCEPT !.emu = "idle", !.pc = NoValue, !.opcode = NoValue]

\* SYS addr, on the thread of the client's connection.  sys_addr keeps the
\* address when the emulation thread is inside step.
Sys(addr) ==
    /\ obs.commands < MaxCommands
    /\ cpu' = sys(cpu, addr)
    /\ thr' = [thr EXCEPT !.sys_addr = IF thr.emu = "idle" THEN NoValue ELSE addr]
    /\ last' = Hist("sys", addr, NoValue, NoValue, "none", FALSE, cpu)
    /\ obs' = [obs EXCEPT !.commands = @ + 1]

DoSys == \E addr \in SysAddrs : Sys(addr)

NextSys == EmuFetch \/ EmuExec \/ DoSys

SpecSys == InitSys /\ [][NextSys]_vars

\* C9: one thread at a time drives the core: no SYS handler changes the PC
\* while the emulation thread is inside step, and the PC a SYS issued during
\* a step has set is still there when that step returns.
C9_OneDriver ==
    /\ last.op = "sys" => thr.emu = "idle"
    /\ (StepDone /\ thr.sys_addr # NoValue) => cpu.state.pc = thr.sys_addr

\* A SYS was handled while the emulation thread was inside step, and the PC
\* after that step is not the address of the SYS
C9_SysLost == StepDone /\ thr.sys_addr # NoValue /\ cpu.state.pc # thr.sys_addr

---------------------------------------------------------------------------
(* SpecJsr: a JSR at X with stack pointer SP, to an RTS or to the CHROUT   *)
(* or CHRIN trap, stepped by the host.                                     *)

\* Where the JSR stands: the return address X + 2 is $C002, $C0FF, $C1FF, $C2FE
JsrAddrs == {ProgBase, ProgBase + 253, ProgBase + 509, ProgBase + 764}

\* SP before the JSR; from $00 and $01 the pushes wrap
JsrStack == {255, 128, 1, 0}

\* The RTS the first target holds
SubAddr == ProgBase + 1024

JsrTargets == {SubAddr, ADDR_CHROUT, ADDR_CHRIN}

MaxJsrSteps == 3

\* JSR target at x and RTS at SubAddr, PC = x, SP = sp (set_cpu_state)
JsrMachine(x, sp, target) ==
    [sys(load_prg(load_prg(BootCpu(TRUE, TRUE, TRUE, "pal"), SubAddr, <<96>>),
                  x, <<32, target % 256, target \div 256>>), x)
        EXCEPT !.state.sp = sp]

InitJsr ==
    /\ \E x \in JsrAddrs, sp \in JsrStack, target \in JsrTargets :
          cpu = JsrMachine(x, sp, target)
    /\ last = NoHist(cpu)
    /\ obs = NoObs
    /\ thr = NoThreads

JsrStep == obs.steps < MaxJsrSteps /\ Step

NextJsr == JsrStep

SpecJsr == InitJsr /\ [][NextJsr]_vars

\* The step after the JSR was the RTS or the trap, and has returned
Returned ==
    /\ StepDone /\ obs.steps = 2 /\ obs.jsr_at # NoValue
    /\ last.path \in {"chrin", "chrout"} \/ (last.path = "opcode" /\ last.value = 96)

\* C10: a JSR at X followed by RTS, or by the return of the CHROUT / CHRIN
\* trap, leaves PC = (X + 3) mod 65536 and SP at its value before the JSR.
C10_CallReturn ==
    Returned =>
        /\ cpu.state.pc = (obs.jsr_at + 3) % 65536
        /\ cpu.state.sp = obs.jsr_sp

\* A JSR whose return address has low byte $FF and an odd high byte has
\* returned, with SP restored, to another address than X + 3
C10_WrongReturn ==
    /\ Returned
    /\ cpu.state.sp = obs.jsr_sp
    /\ (obs.jsr_at + 2) % 256 = 255
    /\ cpu.state.pc # (obs.jsr_at + 3) % 65536

---------------------------------------------------------------------------
(* SpecTrap: a program that calls the three KERNAL entry points, with the  *)
(* bytes INX; RTS in the RAM under each, while the host changes the        *)
(* banking register $01 through the WRITE command.                         *)

TrapAddrs == {ADDR_CHROUT, ADDR_CHRIN, ADDR_CINT}

\* $37: KERNAL ROM at $E000-$FFFF; $35 and $34: RAM there
BankValues == {55, 53, 52}

MaxTrapSteps == 6
MaxBankWrites == 2

\* JSR trap; NOP; JMP $C000 at $C000, and INX; RTS in the RAM at trap
TrapMachine(trap) ==
    sys(load_prg(load_prg(BootCpu(TRUE, TRUE, TRUE, "pal"), trap, <<232, 96>>),
                 ProgBase, <<32, trap % 256, trap \div 256, 234, 76, 0, 192>>), ProgBase)

InitTrap ==
    /\ \E trap \in TrapAddrs : cpu = TrapMachine(trap)
    /\ last = NoHist(cpu)
    /\ obs = NoObs
    /\ thr = NoThreads

TrapStep == obs.steps < MaxTrapSteps /\ Step

\* WRITE 0001 value
Bank(value) ==
    /\ obs.commands < MaxBankWrites
    /\ cpu' = Wr(cpu, 1, value)
    /\ last' = Hist("write", 1, value, NoValue, "none", FALSE, cpu)
    /\ obs' = [obs EXCEPT !.commands = @ + 1]
    /\ UNCHANGED thr

DoBank == \E value \in BankValues : Bank(value)

NextTrap == TrapStep \/ DoBank

SpecTrap == InitTrap /\ [][NextTrap]_vars

\* The last step began with PC at a KERNAL entry point, on a running CPU
AtTrap == StepDone /\ last.addr \in TrapAddrs /\ ~last.pre.state.stopped

\* C11: a step at $FFD2, $FFCF or $FF5B takes the trap only when $01 & 7 = 7
\* maps the KERNAL ROM; with RAM in the window it executes the opcode that
\* the RAM holds at PC, like any other instruction.
C11_TrapsNeedKernal ==
    AtTrap =>
        IF RomEnabled(last.pre.memory)
        THEN last.path \in {"chrout", "chrin", "cint"}
        ELSE /\ last.path = "opcode"
             /\ cpu = StepOpcode(last.pre, last.value).c

\* A step at an entry point took the trap although the window was RAM
C11_TrapInRam == AtTrap /\ ~RomEnabled(last.pre.memory) /\ last.path # "opcode"

---------------------------------------------------------------------------
(* SpecVideo: the WRITE and MEMORY commands on the banking register, on    *)
(* the first and last cell of screen RAM and of color RAM.                 *)

\* $0400, $07E7
ScreenAddrs == {SCREEN_MEM, SCREEN_MEM + 999}

\* $D800, $DBE7
ColorAddrs == {COLOR_MEM, COLOR_MEM + 999}

VideoAddrs == {1} \cup ScreenAddrs \cup ColorAddrs

\* $37: ROM and I/O; $34: neither; $05: character ROM at $D000-$DFFF
VideoValues == {55, 52, 5}

DoVideoWrite == \E addr \in VideoAddrs, value \in VideoValues : BusWrite(addr, value)
DoVideoRead == \E addr \in VideoAddrs : BusRead(addr)

NextVideo == DoVideoWrite \/ DoVideoRead

SpecVideo == InitBus /\ [][NextVideo]_vars

\* C12: for every value of $01, a write of v to a cell of screen RAM followed
\* by a read of the cell returns v, and a write of v to a cell of color RAM
\* followed by a read of it returns v in the low 4 bits.
C12_VideoRamBacked ==
    ReadAfterWrite =>
        /\ last.addr \in ScreenAddrs => last.ret = last.value
        /\ last.addr \in ColorAddrs => last.ret % 16 = last.value % 16

\* A byte written to color RAM with the I/O registers mapped was read back as
\* another value
C12_ColorLost ==
    /\ ReadAfterWrite /\ last.addr \in ColorAddrs
    /\ IoMapped(last.pre.memory, last.addr)
    /\ last.ret % 16 # last.value % 16

---------------------------------------------------------------------------
(* SpecScroll: a program that sends one character to CHROUT in a loop,     *)
(* started with the cursor on the last rows of the screen.                 *)

\* $07E7 and $07E6 (row 24, columns 39 and 38), $07C0 (row 24, column 0),
\* $0798 (row 23, column 0), $0428 (row 1, column 0), $0400
ScrollCursors == {SCREEN_MEM + 999, SCREEN_MEM + 998, SCREEN_MEM + 960,
                  SCREEN_MEM + 920, SCREEN_MEM + 40, SCREEN_MEM}

\* carriage return, "A", clear screen
ScrollChars == {13, 65, 147}

MaxScrollSteps == 8

\* LDA #char; JSR $FFD2; JMP $C000 at $C000, the cursor pointer $D1/$D2 set
\* with WRITE
ScrollMachine(cursor, char) ==
    sys(load_prg(Wr(Wr(BootCpu(TRUE, TRUE, TRUE, "pal"), 209, cursor % 256),
                    210, cursor \div 256),
                 ProgBase, <<169, char, 32, 210, 255, 76, 0, 192>>), ProgBase)

InitScroll ==
    /\ \E cursor \in ScrollCursors, char \in ScrollChars : cpu = ScrollMachine(cursor, char)
    /\ last = NoHist(cpu)
    /\ obs = NoObs
    /\ thr = NoThreads

ScrollStep == obs.steps < MaxScrollSteps /\ Step

NextScroll == ScrollStep

SpecScroll == InitScroll /\ [][NextScroll]_vars

\* The screen row the cursor pointer of c is on
CursorRow(c) == (CursorAddr(c) - SCREEN_MEM) \div 40

\* The last step was a CHROUT trap that has to scroll: a carriage return on
\* row 24, or a character written at the last cell
ScrollDue ==
    /\ StepDone /\ last.path = "chrout"
    /\ \/ last.pre.state.a = 13 /\ CursorRow(last.pre) = 24
       \/ last.pre.state.a \notin {13, 147} /\ CursorAddr(last.pre) = SCREEN_MEM + 999

\* C13: a character written at $07E7 and a carriage return on row 24 scroll
\* the screen up by one row (row r in 1..24 moves to row r - 1) and leave the
\* cursor on row 24; the cursor does not go back to row 0.
C13_ChroutScrolls ==
    ScrollDue =>
        /\ CursorRow(cpu) = 24
        /\ \A r \in 1..24, col \in 0..39 :
              (last.pre.state.a = 13 \/ r # 24 \/ col # 39) =>
                  Rd(cpu, SCREEN_MEM + (r - 1) * 40 + col)
                      = Rd(last.pre, SCREEN_MEM + r * 40 + col)

\* After a CHROUT that had to scroll the cursor is on row 0
C13_WrapsToTop == ScrollDue /\ CursorRow(cpu) = 0 /\ CursorRow(last.pre) = 24

---------------------------------------------------------------------------
(* SpecHello: from the reset state, a program that sends two characters to *)
(* CHROUT and ends with BRK.                                               *)

\* "H", "I", "A", "Z"
HelloChars == {72, 73, 65, 90}

MaxHelloSteps == 8

\* LDA #c1; JSR $FFD2; LDA #c2; JSR $FFD2; BRK at $C000
HelloMachine(video_standard, c1, c2) ==
    sys(load_prg(BootCpu(TRUE, TRUE, TRUE, video_standard), ProgBase,
                 <<169, c1, 32, 210, 255, 169, c2, 32, 210, 255, 0>>), ProgBase)

InitHello ==
    /\ \E video_standard \in {"pal", "ntsc"}, c1 \in HelloChars, c2 \in HelloChars :
          cpu = HelloMachine(video_standard, c1, c2)
    /\ last = NoHist(cpu)
    /\ obs = NoObs
    /\ thr = NoThreads

HelloStep == obs.steps < MaxHelloSteps /\ Step

NextHello == HelloStep

SpecHello == InitHello /\ [][NextHello]_vars

\* The program is LDA #$48; JSR $FFD2; LDA #$49; JSR $FFD2; BRK and its second
\* CHROUT trap has just returned
HelloPrinted ==
    /\ Rd(cpu, ProgBase + 1) = 72 /\ Rd(cpu, ProgBase + 6) = 73
    /\ StepDone /\ obs.steps = 6 /\ last.path = "chrout"

\* The cursor pointer, the word at $D1/$D2
CursorPointer(c) == BitOr(Rd(c, 209), Rd(c, 210) * 256)

\* C14: after the two CHROUT traps of LDA #$48; JSR $FFD2; LDA #$49; JSR $FFD2
\* screen RAM holds the screen codes $08 at $0400 and $09 at $0401, and the
\* cursor pointer is $0402.
C14_HelloScreenCodes ==
    HelloPrinted =>
        /\ Rd(cpu, SCREEN_MEM) = 8
        /\ Rd(cpu, SCREEN_MEM + 1) = 9
        /\ CursorPointer(cpu) = SCREEN_MEM + 2

\* After the two traps the screen holds the PETSCII values $48 and $49
C14_HelloPetscii ==
    /\ HelloPrinted
    /\ Rd(cpu, SCREEN_MEM) = 72 /\ Rd(cpu, SCREEN_MEM + 1) = 73
    /\ CursorPointer(cpu) = SCREEN_MEM + 2

---------------------------------------------------------------------------
(* The CHRIN trap on an empty buffer, and key injection (SpecKbd).         *)

\* The last step was a CHRIN trap that found $C6 = 0
ChrinOnEmpty == StepDone /\ last.path = "chrin" /\ Rd(last.pre, KB_LEN) = 0

\* C15: a CHRIN trap executed while $C6 is 0 returns 0 in A and changes
\* nothing in memory: $C6 stays 0 and $0277-$0280 keep their bytes, on the
\* first such call as on the later ones.
C15_EmptyChrinIsPure ==
    ChrinOnEmpty =>
        /\ cpu.state.a = 0
        /\ Rd(cpu, KB_LEN) = 0
        /\ \A j \in 0..9 : Rd(cpu, KB_BUF + j) = Rd(last.pre, KB_BUF + j)
        /\ cpu.memory = last.pre.memory

\* The first CHRIN trap on an empty buffer has put RUN and a carriage return
\* into the buffer
C15_RunInjected ==
    /\ ChrinOnEmpty /\ ~last.pre.run_injected
    /\ cpu.state.a = 0
    /\ Rd(cpu, KB_LEN) = 4
    /\ \A j \in 1..4 : Rd(cpu, KB_BUF + j - 1) = RunCommand[j]

---------------------------------------------------------------------------
(* SpecFill: keys typed into a buffer that already holds 7 to 10 bytes.    *)

\* The machine of SpecKbd after n keys "A" have been typed
RECURSIVE Typed(_)
Typed(n_) ==
    The({(
        IF n = 0
        THEN sys(load_prg(BootCpu(TRUE, TRUE, TRUE, "pal"), ProgBase, ChrinLoop), ProgBase)
        ELSE PutKey(Typed(n - 1), _ascii_to_petscii(65))
        ) : n \in {n_}})

MinFill == 7
MaxFill == 10
MaxFillKeys == 3

InitFill ==
    /\ \E n \in MinFill..MaxFill : cpu = Typed(n)
    /\ last = NoHist(cpu)
    /\ obs = NoObs
    /\ thr = NoThreads

FillPress == obs.keys < MaxFillKeys /\ DoKeyPress
FillEnter == obs.keys < MaxFillKeys /\ Enter

NextFill == FillPress \/ FillEnter

SpecFill == InitFill /\ [][NextFill]_vars

\* The last operation was a key put into the buffer by the key handler
KeyDelivered == last.op = "key"

\* C16: with $C6 < 10 the key is stored at $0277 + $C6 and $C6 grows by 1; with
\* $C6 = 10 the key is dropped: $C6 and the ten buffer bytes stay as they are.
C16_KeyInjection ==
    KeyDelivered =>
        /\ Rd(last.pre, KB_LEN) < 10 =>
              /\ Rd(cpu, KB_BUF + Rd(last.pre, KB_LEN)) = last.value
              /\ Rd(cpu, KB_LEN) = Rd(last.pre, KB_LEN) + 1
        /\ Rd(last.pre, KB_LEN) = 10 =>
              /\ Rd(cpu, KB_LEN) = 10
              /\ \A j \in 0..9 : Rd(cpu, KB_BUF + j) = Rd(last.pre, KB_BUF + j)

\* A key arrived at a buffer of ten bytes, after one that was stored as the
\* tenth
C16_FullBuffer ==
    /\ KeyDelivered /\ Rd(last.pre, KB_LEN) = 10 /\ Rd(cpu, KB_LEN) = 10
    /\ obs.keys >= 2 /\ Len(obs.injected) = obs.keys - 1

---------------------------------------------------------------------------
(* A step on a stopped CPU (SpecCpu).                                      *)

\* The last step began with the stopped flag set
SteppedWhileStopped == StepDone /\ last.pre.state.stopped

\* C17: once the stopped flag is set every later step returns 0 cycles and
\* leaves registers, memory, timers and the cycle counter unchanged.
C17_StoppedStepIsIdle ==
    SteppedWhileStopped =>
        /\ last.ret = 0
        /\ cpu = last.pre

\* A step on a stopped CPU changed nothing and returned 1
C17_StoppedReturnsOne == SteppedWhileStopped /\ cpu = last.pre /\ last.ret = 1

---------------------------------------------------------------------------
(* The run loops: C64Emulator.run and the server's RUN command (SpecRun).  *)

\* stuck_count > 1000 of C64Emulator.run
StuckLimit == 1000

\* Programs at ProgBase: one that halts (NOP; KIL), one that jumps to itself,
\* one that loops over two instructions
RunPrograms ==
    [halt |-> <<234, 2>>, spin |-> <<76, 0, 192>>, loop |-> <<234, 76, 0, 192>>]

\* A stack page in which every return address popped leads to ADDR_CHRIN
ChrinStack == [i \in 1..256 |-> IF i % 2 = 1 THEN 206 ELSE 255]

\* The machine with a program loaded and PC at its start; "wait" is the
\* machine whose PC is at CHRIN over ChrinStack
RunMachine(prog) ==
    IF prog = "wait"
    THEN sys(load_prg(BootCpu(TRUE, TRUE, TRUE, "pal"), 256, ChrinStack), ADDR_CHRIN)
    ELSE sys(load_prg(BootCpu(TRUE, TRUE, TRUE, "pal"), ProgBase, RunPrograms[prog]),
             ProgBase)

RunBudgets == {8, 3100, 20100}
ServerBudgets == {8, 40}

InitRun ==
    /\ \E prog \in {"halt", "spin", "loop", "wait"} : cpu = RunMachine(prog)
    /\ last = NoHist(cpu)
    /\ obs = NoObs
    /\ thr = NoThreads

\* C64Emulator.run, up to its loop
RunStart(max_cycles) ==
    /\ thr.loop = "none"
    /\ thr' = [thr EXCEPT !.loop = "run", !.running = TRUE, !.cycles = 0,
                          !.max_cycles = max_cycles, !.last_pc = NoValue,
                          !.stuck_count = 0]
    /\ last' = Hist("run", NoValue, max_cycles, NoValue, "none", FALSE, cpu)
    /\ UNCHANGED <<cpu, obs>>

\* run() without its stuck counter
StuckCount_NeverCounts(c, d) == 0

\* The stuck counter after an iteration of C64Emulator.run whose step led
\* from c to d
StuckCount(c, d) ==
    IF d.state.stopped THEN thr.stuck_count
    ELSE IF d.state.pc = thr.last_pc THEN thr.stuck_count + 1
    ELSE 0

\* The counts after an iteration of a run loop
ObserveRun(c, opcode, r) ==
    [Observe(c, opcode, r) EXCEPT
        !.after_stop = IF obs.host_stopped THEN @ + 1 ELSE @]

\* One iteration of the loop of C64Emulator.run
RunIterate ==
    /\ thr.loop = "run"
    /\ thr.running /\ thr.cycles < thr.max_cycles
    /\ CanStep(cpu)
    /\ \E r \in {step(cpu)}, opcode \in {Rd(cpu, cpu.state.pc)} :
       \E count \in {StuckCount(cpu, r.c)} :
       \E stuck \in {~r.c.state.stopped /\ r.c.state.pc = thr.last_pc
                        /\ count > StuckLimit} :
          /\ cpu' = r.c
          /\ last' = Hist("step", cpu.state.pc, opcode, r.ret, r.path, r.serviced, cpu)
          /\ obs' = ObserveRun(Ack(cpu, cpu.state.pc), opcode, r)
          /\ thr' = [thr EXCEPT
                        !.cycles = @ + r.ret,
                        !.stuck_count = count,
                        !.running = IF stuck THEN FALSE ELSE @,
                        !.last_pc = IF r.c.state.stopped \/ stuck THEN @
                                    ELSE r.c.state.pc,
                        !.loop = IF r.c.state.stopped \/ stuck THEN "run_break"
                                 ELSE @]

\* "Determine stop reason" of C64Emulator.run
StopReason(c, t) ==
    IF c.state.stopped THEN "cpu_stopped"
    ELSE IF t.cycles >= t.max_cycles THEN "max_cycles_reached"
    ELSE IF ~t.running THEN "stuck_pc"
    ELSE "unknown"

\* C64Emulator.run after its loop
RunEnd ==
    /\ \/ thr.loop = "run_break"
       \/ thr.loop = "run" /\ ~(thr.running /\ thr.cycles < thr.max_cycles)
    /\ thr' = [thr EXCEPT !.loop = "run_done", !.stop_reason = StopReason(cpu, thr)]
    /\ last' = Hist("run_end", NoValue, NoValue, NoValue, "none", FALSE, cpu)
    /\ UNCHANGED <<cpu, obs>>

\* STOP (and QUIT) of the server, from its own thread: self.emu.running = False
HostStop ==
    /\ thr.loop \in {"run", "server"}
    /\ ~obs.host_stopped
    /\ thr' = [thr EXCEPT !.running = FALSE]
    /\ obs' = [obs EXCEPT !.host_stopped = TRUE]
    /\ UNCHANGED <<cpu, last>>

\* RUN n of the server, up to its loop
ServerRunStart(max_cycles) ==
    /\ thr.loop = "none"
    /\ thr' = [thr EXCEPT !.loop = "server", !.cycles = 0, !.max_cycles = max_cycles]
    /\ last' = Hist("RUN", NoValue, max_cycles, NoValue, "none", FALSE, cpu)
    /\ UNCHANGED <<cpu, obs>>

\* One iteration of RUN's loop: cycles += self.emu.cpu.step()
ServerRunIterate ==
    /\ thr.loop = "server"
    /\ thr.cycles < thr.max_cycles
    /\ CanStep(cpu)
    /\ \E r \in {step(cpu)}, opcode \in {Rd(cpu, cpu.state.pc)} :
          /\ cpu' = r.c
          /\ last' = Hist("step", cpu.state.pc, opcode, r.ret, r.path, r.serviced, cpu)
          /\ obs' = ObserveRun(Ack(cpu, cpu.state.pc), opcode, r)
          /\ thr' = [thr EXCEPT !.cycles = @ + r.ret]

\* RUN's reply
ServerRunEnd ==
    /\ thr.loop = "server"
    /\ ~(thr.cycles < thr.max_cycles)
    /\ thr' = [thr EXCEPT !.loop = "server_done"]
    /\ last' = Hist("RUN_end", NoValue, NoValue, NoValue, "none", FALSE, cpu)
    /\ UNCHANGED <<cpu, obs>>

DoRunStart == \E max_cycles \in RunBudgets : RunStart(max_cycles)
DoServerRunStart == \E max_cycles \in ServerBudgets : ServerRunStart(max_cycles)

\* What the thread inside a run loop does
RunThread ==
    \/ DoRunStart
    \/ RunIterate
    \/ RunEnd
    \/ DoServerRunStart
    \/ ServerRunIterate
    \/ ServerRunEnd

NextRun == RunThread \/ HostStop

SpecRun == InitRun /\ [][NextRun]_vars

\* The thread inside a run loop is never suspended for ever
SpecRunFair == SpecRun /\ WF_vars(RunThread)

\* C64Emulator.run has returned
RunOver == thr.loop = "run_done"

\* C18: the stop reason of run() is Halted exactly when the CPU's stopped flag
\* is set, MaxCycles when the cycle budget was reached, and StuckPc only when
\* PC stayed unchanged for more than 1000 consecutive steps; a run the host
\* ended by clearing the running flag is not reported as StuckPc.
C18_StopReason ==
    RunOver =>
        /\ thr.stop_reason = "cpu_stopped" <=> cpu.state.stopped
        /\ ~cpu.state.stopped /\ thr.cycles >= thr.max_cycles
              => thr.stop_reason = "max_cycles_reached"
        /\ thr.stop_reason = "stuck_pc" => thr.stuck_count > StuckLimit
        /\ obs.host_stopped /\ thr.stuck_count <= StuckLimit
              => thr.stop_reason # "stuck_pc"

\* A run the host stopped, with no PC repeated, is reported as stuck_pc
C18_HostStopIsStuckPc ==
    /\ RunOver /\ obs.host_stopped /\ ~cpu.state.stopped
    /\ thr.cycles < thr.max_cycles /\ thr.stuck_count = 0 /\ obs.steps > 0
    /\ thr.stop_reason = "stuck_pc"

---------------------------------------------------------------------------
(* Termination of the bounded run loops (SpecRunFair).                     *)

\* The run loop that was started has returned
LoopOver == thr.loop \in {"run_done", "server_done"}

\* The steps a loop may still begin once the host cleared the running flag:
\* the one in progress and one more
StepsAfterStop == 1 + 1

\* C19: for every finite max_cycles and every machine state, a CPU that halts
\* during or before the run included, a bounded run (C64Emulator.run and the
\* server's RUN n) terminates; and once the host clears the running flag it
\* ends within the step in progress plus at most one more.
C19_BoundedRunEnds ==
    /\ <>LoopOver
    /\ [](obs.after_stop <= StepsAfterStop)

\* RUN n went on stepping after the host had cleared the running flag
C19_RunIgnoresStop ==
    /\ thr.loop = "server" /\ obs.host_stopped /\ ~thr.running
    /\ obs.after_stop > StepsAfterStop
    /\ last.op = "step"

---------------------------------------------------------------------------
(* The stuck-PC heuristic and CHRIN (SpecRun).                             *)

\* PC is at CHRIN and the keyboard buffer is empty
WaitingForKey == cpu.state.pc = ADDR_CHRIN /\ Rd(cpu, KB_LEN) = 0

\* C20: the stuck-PC heuristic never stops a run while PC is at CHRIN ($FFCF):
\* with PC there and the keyboard buffer empty, a run ends only because the
\* host cleared the running flag or the cycle budget expired.
C20_ChrinNeverStuck ==
    RunOver /\ WaitingForKey /\ ~cpu.state.stopped =>
        \/ obs.host_stopped
        \/ thr.cycles >= thr.max_cycles

\* run() gave up with PC at CHRIN and the buffer empty, its budget not used up
\* and no stop from the host
C20_StuckAtChrin ==
    /\ RunOver /\ WaitingForKey /\ ~cpu.state.stopped
    /\ ~obs.host_stopped /\ thr.cycles < thr.max_cycles
    /\ thr.stuck_count > StuckLimit /\ thr.stop_reason = "stuck_pc"
    /\ obs.chrins > StuckLimit

---------------------------------------------------------------------------
(* A program that jumps to itself, run with a large budget (SpecSpin).     *)

\* The budget of the run: 10,000,000 cycles
SpinBudget == 10000000

InitSpin ==
    /\ cpu = RunMachine("spin")
    /\ last = NoHist(cpu)
    /\ obs = NoObs
    /\ thr = NoThreads

SpinStart == RunStart(SpinBudget)

NextSpin == SpinStart \/ RunIterate \/ RunEnd

\* run() is the only thread, and it is never suspended for ever
SpecSpin == InitSpin /\ [][NextSpin]_vars /\ WF_vars(NextSpin)

\* C21: with JMP * at $C000 and PC = $C000, run with a budget of 10,000,000
\* cycles stops with reason StuckPc after at most 1010 steps, long before the
\* budget is spent.
C21_SpinIsCaught ==
    /\ <>RunOver
    /\ [](obs.steps <= 1010)
    /\ [](RunOver => /\ thr.stop_reason = "stuck_pc"
                     /\ thr.cycles < thr.max_cycles \div 1000)

\* run() returned with stuck_pc, PC still at the jump
C21_SpinStopped ==
    /\ RunOver /\ thr.stop_reason = "stuck_pc" /\ thr.max_cycles = SpinBudget
    /\ cpu.state.pc = ProgBase /\ Rd(cpu, ProgBase) = 76
    /\ obs.steps > StuckLimit /\ obs.steps <= 1010

---------------------------------------------------------------------------
(* Loading a PRG file (SpecLoad).                                          *)

\* C64Emulator.load_prg on the bytes of a file: [c |-> the machine afterwards,
\* error |-> ValueError was raised]
load_prg_file(c_, data_) ==
    The({(
        IF Len(data) < 2 THEN [c |-> c, error |-> TRUE]
        ELSE [c |-> load_prg(c, data[1] + data[2] * 256, SubSeq(data, 3, Len(data))),
              error |-> FALSE]
        ) : c \in {c_}, data \in {data_}})

\* Load addresses, low byte first: $0801, $C000, $CFFF, $D020, $D800, $A000
PrgHeaders ==
    {<<1, 8>>, <<0, 192>>, <<255, 207>>, <<32, 208>>, <<0, 216>>, <<0, 160>>}
PrgBytes == {1, 66}
PrgPayloads ==
    {<<>>} \cup {<<p>> : p \in PrgBytes} \cup {<<p, q>> : p \in PrgBytes, q \in PrgBytes}
PrgFiles ==
    {<<>>} \cup {<<b>> : b \in PrgBytes}
        \cup {h \o p : h \in PrgHeaders, p \in PrgPayloads}
MaxLoads == 2

InitLoad ==
    /\ \E value \in BankValues : cpu = Wr(BootCpu(TRUE, TRUE, TRUE, "pal"), 1, value)
    /\ last = NoHist(cpu)
    /\ obs = NoObs
    /\ thr = NoThreads

\* load_prg of a file whose bytes are data
LoadPrg(data) ==
    /\ obs.commands < MaxLoads
    /\ \E r \in {load_prg_file(cpu, data)} :
          /\ cpu' = r.c
          /\ last' = Hist("load_prg", NoValue, data, NoValue,
                          IF r.error THEN "error" ELSE "loaded", FALSE, cpu)
    /\ obs' = [obs EXCEPT !.commands = @ + 1]
    /\ UNCHANGED thr

DoLoadPrg == \E data \in PrgFiles : LoadPrg(data)

NextLoad == DoLoadPrg

SpecLoad == InitLoad /\ [][NextLoad]_vars

\* The load address of the file loaded last
LoadAddr == last.value[1] + last.value[2] * 256

\* C22: load_prg with bytes b0 b1 p0..p(n-1) copies the payload into RAM:
\* afterwards RAM[(b0 | b1<<8) + i] = p_i for every i < n, for every load
\* address and banking state (payload bytes in $D000-$DFFF with I/O enabled
\* included); a load at $0801 leaves $0801 + n in $2D/$2E; a file of fewer
\* than 2 bytes is reported as an error and changes no state.
C22_PayloadInRam ==
    last.op = "load_prg" =>
        IF Len(last.value) < 2
        THEN last.path = "error" /\ cpu = last.pre
        ELSE /\ last.path = "loaded"
             /\ \A i \in 0..(Len(last.value) - 3) :
                   RamGet(cpu.memory, (LoadAddr + i) % 65536) = last.value[i + 3]
             /\ LoadAddr = 2049 =>
                   RamGet(cpu.memory, 45) + 256 * RamGet(cpu.memory, 46)
                       = 2049 + Len(last.value) - 2

\* A payload byte loaded into the I/O window with I/O enabled is not in RAM
C22_PayloadInIo ==
    /\ last.op = "load_prg" /\ Len(last.value) = 3
    /\ InCharWindow(LoadAddr) /\ IoEnabled(last.pre.memory)
    /\ RamGet(cpu.memory, LoadAddr) # last.value[3]
    /\ RamGet(cpu.memory, LoadAddr) = RamGet(last.pre.memory, LoadAddr)

---------------------------------------------------------------------------
(* Reset: load_roms with _initialize_c64, on a machine in use (SpecReset). *)

\* C64Emulator._initialize_c64: the bytes, registers and timer fields it
\* assigns; everything else keeps its value
_initialize_c64(c_) ==
    The({(
        [c EXCEPT
            !.state.sp = 255,
            !.memory.ram = [x \in {a \in DOMAIN mem.ram : ~IsInitAddr(a, FALSE)} |-> mem.ram[x]],
            !.memory.vic_regs =
                IF mem.has_vic_regs
                THEN [x \in (DOMAIN mem.vic_regs) \cup {24} |->
                        IF x = 24 THEN 16 ELSE mem.vic_regs[x]]
                ELSE mem.vic_regs,
            !.memory.cia1_timer_a =
                [mem.cia1_timer_a EXCEPT !.latch = JiffyCycles(mem.video_standard),
                                         !.counter = JiffyCycles(mem.video_standard),
                                         !.running = TRUE, !.irq_enabled = TRUE],
            !.memory.cia1_timer_b =
                [mem.cia1_timer_b EXCEPT !.latch = 65535, !.counter = 65535]]
        ) : c \in {c_}, mem \in {c_.memory}})

\* load_roms reading the reset vector before the machine is initialized
load_roms_VectorFirst(c_) ==
    The({(
        [_initialize_c64(c) EXCEPT !.state.pc = _read_word(c, 65532)]
        ) : c \in {c_}})

\* C64Emulator.load_roms on a machine whose ROM files are the ones found
\* before: the reset vector is copied to RAM when there is a KERNAL image,
\* the machine is initialized, and PC is read through the bus at $FFFC
load_roms(c_) ==
    The({(
        The({(
            [c2 EXCEPT !.state.pc = _read_word(c2, 65532)]
            ) : c2 \in {_initialize_c64(c1)}})
        ) : c1 \in {[c_ EXCEPT !.memory.ram =
                        [x \in {a \in DOMAIN @ : ~(c_.memory.kernal_rom /\ a \in {65532, 65533})}
                            |-> @[x]]]}})

\* LDA #$48; INX; KIL
ResetProgram == <<169, 72, 232, 2>>
\* $01, screen RAM, plain RAM, the reset vector, Timer A's low byte, $D018
ResetAddrs == {1, 1024, 4096, 65532, 56324, 53272}
ResetValues == {52, 9}
MaxResetSteps == 3
MaxResetCommands == 3

InitReset ==
    /\ \E roms \in BOOLEAN :
          cpu = sys(load_prg(BootCpu(roms, roms, roms, "pal"), ProgBase, ResetProgram),
                    ProgBase)
    /\ last = NoHist(cpu)
    /\ obs = NoObs
    /\ thr = NoThreads

ResetStep == obs.steps < MaxResetSteps /\ Step

\* WRITE addr value
ResetWrite(addr, value) ==
    /\ obs.commands < MaxResetCommands
    /\ cpu' = Wr(cpu, addr, value)
    /\ last' = Hist("write", addr, value, NoValue, "none", FALSE, cpu)
    /\ obs' = [obs EXCEPT !.commands = @ + 1]
    /\ UNCHANGED thr

DoResetWrite == \E addr \in ResetAddrs, value \in ResetValues : ResetWrite(addr, value)

\* The machine is reset
Reset ==
    /\ obs.commands < MaxResetCommands
    /\ cpu' = load_roms(cpu)
    /\ last' = Hist("reset", NoValue, NoValue, NoValue, "none", FALSE, cpu)
    /\ obs' = [obs EXCEPT !.commands = @ + 1]
    /\ UNCHANGED thr

NextReset == ResetStep \/ DoResetWrite \/ Reset

SpecReset == InitReset /\ [][NextReset]_vars

\* The operation performed last was a reset
WasReset == last.op = "reset"

\* C23: after reset from any prior state (a halted CPU and a state reached by
\* running code included) SP = $FF, A = X = Y = 0, P = $04, cycles = 0 and
\* stopped = false, and PC is the word read through the bus at $FFFC/$FFFD.
C23_ResetRegisters ==
    WasReset =>
        /\ cpu.state.sp = 255
        /\ cpu.state.a = 0 /\ cpu.state.x = 0 /\ cpu.state.y = 0
        /\ cpu.state.p = 4
        /\ cpu.state.cycles = 0
        /\ ~cpu.state.stopped
        /\ cpu.state.pc = _read_word(cpu, 65532)

\* A halted CPU was reset and is still halted, with A and its cycles kept
C23_StillHalted ==
    /\ WasReset /\ last.pre.state.stopped /\ cpu.state.stopped
    /\ cpu.state.a = 72 /\ cpu.state.cycles > 0
    /\ cpu.state.sp = 255 /\ cpu.state.pc = _read_word(cpu, 65532)

---------------------------------------------------------------------------
(* The RAM image after a reset (SpecReset).                                *)

\* The RAM addresses whose byte may differ from 0 in the image of C24: the
\* ones the memory keeps a byte for (ram holds the differences from BootByte,
\* which is 0 at every address _initialize_c64 does not assign)
NonBootAddrs == {a \in DOMAIN cpu.memory.ram : ~IsInitAddr(a, cpu.memory.kernal_rom)}

\* C24: after reset from any prior state RAM holds a fixed boot image: every
\* byte of screen RAM $0400-$07E7 is $20, every byte of color RAM $D800-$DBE7
\* is $01, $00 = $2F, $01 = $37, the vectors and pointers hold their boot
\* values (jiffy $A0-$A2 = 0 and $C6 = 0 included), every other byte is 0.
C24_BootImage ==
    WasReset =>
        /\ \A a \in SCREEN_MEM..(SCREEN_MEM + 999) : RamGet(cpu.memory, a) = 32
        /\ \A a \in COLOR_MEM..(COLOR_MEM + 999) : RamGet(cpu.memory, a) = 1
        /\ RamGet(cpu.memory, 0) = 47 /\ RamGet(cpu.memory, 1) = 55
        /\ \A a \in {160, 161, 162, KB_LEN} : RamGet(cpu.memory, a) = 0
        /\ \A a \in 768..821 : RamGet(cpu.memory, a) = BootByte(a, FALSE)
        /\ \A a \in NonBootAddrs : RamGet(cpu.memory, a) = 0

\* After a reset the screen starts with the letter C of the test text, and a
\* byte written to $1000 before the reset is still there
C24_OldBytesKept ==
    /\ WasReset
    /\ RamGet(cpu.memory, SCREEN_MEM) = 67
    /\ RamGet(last.pre.memory, 4096) = 9 /\ RamGet(cpu.memory, 4096) = 9
    /\ RamGet(cpu.memory, ProgBase) = 169

---------------------------------------------------------------------------
(* Two resets in a row (SpecReset).                                        *)

\* C25: reset is idempotent: for every state s the complete machine state
\* (RAM, CPU registers, CIA timers, ICR, pending IRQ, raster) after
\* reset(reset(s)) equals the state after reset(s).
C25_ResetIdempotent ==
    WasReset => load_roms(load_roms(last.pre)) = load_roms(last.pre)

\* A reset of a machine that differed from its boot state in its registers,
\* its banking, its RAM vector and Timer A, and a second reset changed nothing
C25_ResetTwice ==
    /\ WasReset /\ cpu = load_roms(last.pre) /\ load_roms(cpu) = cpu
    /\ RamGet(last.pre.memory, 1) # 55
    /\ last.pre.state.pc # cpu.state.pc
    /\ last.pre.memory.cia1_timer_a # cpu.memory.cia1_timer_a
    /\ last.pre.state.stopped

---------------------------------------------------------------------------
(* The documented instruction set (SpecOpcode).                            *)

\* OPCODES of the disassembler after _init_opcodes: the mnemonic and the size
\* in bytes of each of its 151 opcodes
OPCODES ==
    (  (0 :> [mnemonic |-> "BRK", size |-> 1]) @@ (1 :> [mnemonic |-> "ORA", size |-> 2]) @@ (5 :> [mnemonic |-> "ORA", size |-> 2])
       @@ (6 :> [mnemonic |-> "ASL", size |-> 2]) @@ (8 :> [mnemonic |-> "PHP", size |-> 1]) @@ (9 :> [mnemonic |-> "ORA", size |-> 2])
       @@ (10 :> [mnemonic |-> "ASL", size |-> 1]) @@ (13 :> [mnemonic |-> "ORA", size |-> 3]) @@ (14 :> [mnemonic |-> "ASL", size |-> 3])
       @@ (16 :> [mnemonic |-> "BPL", size |-> 2]) @@ (17 :> [mnemonic |-> "ORA", size |-> 2]) @@ (21 :> [mnemonic |-> "ORA", size |-> 2])
       @@ (22 :> [mnemonic |-> "ASL", size |-> 2]) @@ (24 :> [mnemonic |-> "CLC", size |-> 1]) @@ (25 :> [mnemonic |-> "ORA", size |-> 3])
       @@ (29 :> [mnemonic |-> "ORA", size |-> 3]) @@ (30 :> [mnemonic |-> "ASL", size |-> 3]) @@ (32 :> [mnemonic |-> "JSR", size |-> 3])
       @@ (33 :> [mnemonic |-> "AND", size |-> 2]) @@ (36 :> [mnemonic |-> "BIT", size |-> 2]) @@ (37 :> [mnemonic |-> "AND", size |-> 2])
       @@ (38 :> [mnemonic |-> "ROL", size |-> 2]) @@ (40 :> [mnemonic |-> "PLP", size |-> 1]) @@ (41 :> [mnemonic |-> "AND", size |-> 2])
       @@ (42 :> [mnemonic |-> "ROL", size |-> 1]) @@ (44 :> [mnemonic |-> "BIT", size |-> 3]) @@ (45 :> [mnemonic |-> "AND", size |-> 3])
       @@ (46 :> [mnemonic |-> "ROL", size |-> 3]) @@ (48 :> [mnemonic |-> "BMI", size |-> 2]) @@ (49 :> [mnemonic |-> "AND", size |-> 2])
       @@ (53 :> [mnemonic |-> "AND", size |-> 2]) @@ (54 :> [mnemonic |-> "ROL", size |-> 2]) @@ (56 :> [mnemonic |-> "SEC", size |-> 1])
       @@ (57 :> [mnemonic |-> "AND", size |-> 3]) @@ (61 :> [mnemonic |-> "AND", size |-> 3]) @@ (62 :> [mnemonic |-> "ROL", size |-> 3])
       @@ (64 :> [mnemonic |-> "RTI", size |-> 1]) @@ (65 :> [mnemonic |-> "EOR", size |-> 2]) @@ (69 :> [mnemonic |-> "EOR", size |-> 2])
       @@ (70 :> [mnemonic |-> "LSR", size |-> 2]) @@ (72 :> [mnemonic |-> "PHA", size |-> 1]) @@ (73 :> [mnemonic |-> "EOR", size |-> 2])
       @@ (74 :> [mnemonic |-> "LSR", size |-> 1]) @@ (76 :> [mnemonic |-> "JMP", size |-> 3]) @@ (77 :> [mnemonic |-> "EOR", size |-> 3])
       @@ (78 :> [mnemonic |-> "LSR", size |-> 3]) @@ (80 :> [mnemonic |-> "BVC", size |-> 2]) @@ (81 :> [mnemonic |-> "EOR", size |-> 2])
       @@ (85 :> [mnemonic |-> "EOR", size |-> 2]) @@ (86 :> [mnemonic |-> "LSR", size |-> 2]) @@ (88 :> [mnemonic |-> "CLI", size |-> 1])
       @@ (89 :> [mnemonic |-> "EOR", size |-> 3]) @@ (93 :> [mnemonic |-> "EOR", size |-> 3]) @@ (94 :> [mnemonic |-> "LSR", size |-> 3])
       @@ (96 :> [mnemonic |-> "RTS", size |-> 1]) @@ (97 :> [mnemonic |-> "ADC", size |-> 2]) @@ (101 :> [mnemonic |-> "ADC", size |-> 2])
       @@ (102 :> [mnemonic |-> "ROR", size |-> 2]) @@ (104 :> [mnemonic |-> "PLA", size |-> 1]) @@ (105 :> [mnemonic |-> "ADC", size |-> 2])
       @@ (106 :> [mnemonic |-> "ROR", size |-> 1]) @@ (108 :> [mnemonic |-> "JMP", size |-> 3]) @@ (109 :> [mnemonic |-> "ADC", size |-> 3])
       @@ (110 :> [mnemonic |-> "ROR", size |-> 3]) @@ (112 :> [mnemonic |-> "BVS", size |-> 2]) @@ (113 :> [mnemonic |-> "ADC", size |-> 2])
       @@ (117 :> [mnemonic |-> "ADC", size |-> 2]) @@ (118 :> [mnemonic |-> "ROR", size |-> 2]) @@ (120 :> [mnemonic |-> "SEI", size |-> 1])
       @@ (121 :> [mnemonic |-> "ADC", size |-> 3]) @@ (125 :> [mnemonic |-> "ADC", size |-> 3]) @@ (126 :> [mnemonic |-> "ROR", size |-> 3])
       @@ (129 :> [mnemonic |-> "STA", size |-> 2]) @@ (132 :> [mnemonic |-> "STY", size |-> 2]) @@ (133 :> [mnemonic |-> "STA", size |-> 2])
       @@ (134 :> [mnemonic |-> "STX", size |-> 2]) @@ (136 :> [mnemonic |-> "DEY", size |-> 1]) @@ (138 :> [mnemonic |-> "TXA", size |-> 1])
       @@ (140 :> [mnemonic |-> "STY", size |-> 3]) @@ (141 :> [mnemonic |-> "STA", size |-> 3]) @@ (142 :> [mnemonic |-> "STX", size |-> 3])
       @@ (144 :> [mnemonic |-> "BCC", size |-> 2]) @@ (145 :> [mnemonic |-> "STA", size |-> 2]) @@ (148 :> [mnemonic |-> "STY", size |-> 2])
       @@ (149 :> [mnemonic |-> "STA", size |-> 2]) @@ (150 :> [mnemonic |-> "STX", size |-> 2]) @@ (152 :> [mnemonic |-> "TYA", size |-> 1])
       @@ (153 :> [mnemonic |-> "STA", size |-> 3]) @@ (154 :> [mnemonic |-> "TXS", size |-> 1]) @@ (157 :> [mnemonic |-> "STA", size |-> 3])
       @@ (160 :> [mnemonic |-> "LDY", size |-> 2]) @@ (161 :> [mnemonic |-> "LDA", size |-> 2]) @@ (162 :> [mnemonic |-> "LDX", size |-> 2])
       @@ (164 :> [mnemonic |-> "LDY", size |-> 2]) @@ (165 :> [mnemonic |-> "LDA", size |-> 2]) @@ (166 :> [mnemonic |-> "LDX", size |-> 2])
       @@ (168 :> [mnemonic |-> "TAY", size |-> 1]) @@ (169 :> [mnemonic |-> "LDA", size |-> 2]) @@ (170 :> [mnemonic |-> "TAX", size |-> 1])
       @@ (172 :> [mnemonic |-> "LDY", size |-> 3]) @@ (173 :> [mnemonic |-> "LDA", size |-> 3]) @@ (174 :> [mnemonic |-> "LDX", size |-> 3])
       @@ (176 :> [mnemonic |-> "BCS", size |-> 2]) @@ (177 :> [mnemonic |-> "LDA", size |-> 2]) @@ (180 :> [mnemonic |-> "LDY", size |-> 2])
       @@ (181 :> [mnemonic |-> "LDA", size |-> 2]) @@ (182 :> [mnemonic |-> "LDX", size |-> 2]) @@ (184 :> [mnemonic |-> "CLV", size |-> 1])
       @@ (185 :> [mnemonic |-> "LDA", size |-> 3]) @@ (186 :> [mnemonic |-> "TSX", size |-> 1]) @@ (188 :> [mnemonic |-> "LDY", size |-> 3])
       @@ (189 :> [mnemonic |-> "LDA", size |-> 3]) @@ (190 :> [mnemonic |-> "LDX", size |-> 3]) @@ (192 :> [mnemonic |-> "CPY", size |-> 2])
       @@ (193 :> [mnemonic |-> "CMP", size |-> 2]) @@ (196 :> [mnemonic |-> "CPY", size |-> 2]) @@ (197 :> [mnemonic |-> "CMP", size |-> 2])
       @@ (198 :> [mnemonic |-> "DEC", size |-> 2]) @@ (200 :> [mnemonic |-> "INY", size |-> 1]) @@ (201 :> [mnemonic |-> "CMP", size |-> 2])
       @@ (202 :> [mnemonic |-> "DEX", size |-> 1]) @@ (204 :> [mnemonic |-> "CPY", size |-> 3]) @@ (205 :> [mnemonic |-> "CMP", size |-> 3])
       @@ (206 :> [mnemonic |-> "DEC", size |-> 3]) @@ (208 :> [mnemonic |-> "BNE", size |-> 2]) @@ (209 :> [mnemonic |-> "CMP", size |-> 2])
       @@ (213 :> [mnemonic |-> "CMP", size |-> 2]) @@ (214 :> [mnemonic |-> "DEC", size |-> 2]) @@ (216 :> [mnemonic |-> "CLD", size |-> 1])
       @@ (217 :> [mnemonic |-> "CMP", size |-> 3]) @@ (221 :> [mnemonic |-> "CMP", size |-> 3]) @@ (222 :> [mnemonic |-> "DEC", size |-> 3])
       @@ (224 :> [mnemonic |-> "CPX", size |-> 2]) @@ (225 :> [mnemonic |-> "SBC", size |-> 2]) @@ (228 :> [mnemonic |-> "CPX", size |-> 2])
       @@ (229 :> [mnemonic |-> "SBC", size |-> 2]) @@ (230 :> [mnemonic |-> "INC", size |-> 2]) @@ (232 :> [mnemonic |-> "INX", size |-> 1])
       @@ (233 :> [mnemonic |-> "SBC", size |-> 2]) @@ (234 :> [mnemonic |-> "NOP", size |-> 1]) @@ (236 :> [mnemonic |-> "CPX", size |-> 3])
       @@ (237 :> [mnemonic |-> "SBC", size |-> 3]) @@ (238 :> [mnemonic |-> "INC", size |-> 3]) @@ (240 :> [mnemonic |-> "BEQ", size |-> 2])
       @@ (241 :> [mnemonic |-> "SBC", size |-> 2]) @@ (245 :> [mnemonic |-> "SBC", size |-> 2]) @@ (246 :> [mnemonic |-> "INC", size |-> 2])
       @@ (248 :> [mnemonic |-> "SED", size |-> 1]) @@ (249 :> [mnemonic |-> "SBC", size |-> 3]) @@ (253 :> [mnemonic |-> "SBC", size |-> 3])
       @@ (254 :> [mnemonic |-> "INC", size |-> 3]))

\* Jumps, branches, calls, returns and BRK
FlowMnemonics ==
    {"JMP", "JSR", "RTS", "RTI", "BRK",
     "BCC", "BCS", "BEQ", "BMI", "BNE", "BPL", "BVC", "BVS"}

\* The documented opcodes a step of the model can execute
OpcodeInputs == (DOMAIN OPCODES) \cap ModelledOpcodes
OperandBytes == {16, 200}
MaxOpcodeSteps == 1

InitOpcode ==
    /\ \E opcode \in OpcodeInputs, lo \in OperandBytes, hi \in OperandBytes :
          cpu = sys(load_prg(BootCpu(TRUE, TRUE, TRUE, "pal"), ProgBase,
                             <<opcode, lo, hi>>), ProgBase)
    /\ last = NoHist(cpu)
    /\ obs = NoObs
    /\ thr = NoThreads

OpcodeStep == obs.steps < MaxOpcodeSteps /\ Step

NextOpcode == OpcodeStep

SpecOpcode == InitOpcode /\ [][NextOpcode]_vars

\* The last step executed a documented opcode
DocumentedStep ==
    StepDone /\ last.path = "opcode" /\ ~last.serviced /\ last.value \in DOMAIN OPCODES

\* C26: every documented 6502 opcode (the 151 of the disassembler's OPCODES
\* table) is executed by step(): it never sets the stopped flag, returns at
\* least 2 cycles, and unless it is a jump, branch, JSR, RTS, RTI or BRK it
\* advances PC by the instruction's size.
C26_DocumentedExecuted ==
    DocumentedStep =>
        /\ ~cpu.state.stopped
        /\ last.ret >= 2
        /\ OPCODES[last.value].mnemonic \notin FlowMnemonics
              => cpu.state.pc = (last.addr + OPCODES[last.value].size) % 65536

\* ORA ($10,X) halted the CPU: stopped set, 0 cycles, PC not moved
C26_OraHalts ==
    /\ DocumentedStep /\ last.value = 1 /\ OPCODES[1].mnemonic = "ORA"
    /\ ~last.pre.state.stopped /\ cpu.state.stopped
    /\ last.ret = 0 /\ cpu.state.pc = last.addr

---------------------------------------------------------------------------
(* Pushing and pulling a register (SpecStack).                             *)

\* C64Emulator.set_cpu_state: each register named in state is assigned,
\* masked to its width
set_cpu_state(c, state_) ==
    The({(
        [c EXCEPT !.state =
            [f \in DOMAIN @ |->
                IF f \in (DOMAIN state) \cap {"pc", "a", "x", "y", "sp", "p"}
                THEN state[f] % (IF f = "pc" THEN 65536 ELSE 256)
                ELSE @[f]]]
        ) : state \in {state_}})

\* PHA; PLA and PHP; PLP
StackPrograms == {<<72, 104>>, <<8, 40>>}
StackA == {0, 72, 255}
StackSp == {255, 128, 1, 0}
StackP == {4, 0, 36, 52, 255, 207}
MaxStackSteps == 2

InitStack ==
    /\ \E prog \in StackPrograms, a \in StackA, sp \in StackSp, p \in StackP :
          cpu = set_cpu_state(load_prg(BootCpu(TRUE, TRUE, TRUE, "pal"), ProgBase, prog),
                              [pc |-> ProgBase, a |-> a, sp |-> sp, p |-> p])
    /\ last = NoHist(cpu)
    /\ obs = [NoObs EXCEPT !.origin = cpu.state]
    /\ thr = NoThreads

StackStep == obs.steps < MaxStackSteps /\ Step

NextStack == StackStep

SpecStack == InitStack /\ [][NextStack]_vars

\* The two instructions at ProgBase, op1 then op2, were stepped
Stepped(op1, op2) ==
    /\ obs.steps = 2 /\ StepDone /\ ~last.serviced
    /\ Rd(cpu, ProgBase) = op1 /\ Rd(cpu, ProgBase + 1) = op2
    /\ last.addr = ProgBase + 1 /\ last.value = op2

\* C27: for every A and SP, PHA followed by PLA leaves A and SP unchanged; for
\* every P and SP, PHP followed by PLP leaves SP unchanged and P unchanged
\* except that B (bit 4) is 0 and bit 5 is 1 afterwards.
C27_StackRoundTrips ==
    /\ Stepped(72, 104) =>
          /\ cpu.state.a = obs.origin.a
          /\ cpu.state.sp = obs.origin.sp
    /\ Stepped(8, 40) =>
          /\ cpu.state.sp = obs.origin.sp
          /\ cpu.state.p = BitOr(ClearBits(obs.origin.p, 16), 32)

\* PHP; PLP on P = $04 left P = $04: bit 5 is still 0
C27_Bit5NotSet ==
    /\ Stepped(8, 40) /\ obs.origin.p = 4 /\ cpu.state.p = 4
    /\ cpu.state.sp = obs.origin.sp

---------------------------------------------------------------------------
(* The widths of the registers (SpecWidth).                                *)

\* JMP trap and JSR trap at ProgBase, for the three trapped addresses
WidthPrograms ==
    {<<op, trap % 256, trap \div 256, 234>> : op \in {76, 32}, trap \in TrapAddrs}

\* Register values handed to set_cpu_state, in and out of range
WidthStates ==
    {[sp |-> 255], [sp |-> 510], [a |-> 300, x |-> 256, y |-> 0 - 1],
     [pc |-> 65536 + ProgBase, p |-> 0 - 1], [pc |-> ADDR_CINT]}
MaxWidthSteps == 3
MaxWidthCommands == 2

InitWidth ==
    /\ \E prog \in WidthPrograms :
          cpu = sys(load_prg(BootCpu(TRUE, TRUE, TRUE, "pal"), ProgBase, prog), ProgBase)
    /\ last = NoHist(cpu)
    /\ obs = NoObs
    /\ thr = NoThreads

WidthStep == obs.steps < MaxWidthSteps /\ Step

SetCpuState(state) ==
    /\ obs.commands < MaxWidthCommands
    /\ cpu' = set_cpu_state(cpu, state)
    /\ last' = Hist("set_cpu_state", NoValue, state, NoValue, "none", FALSE, cpu)
    /\ obs' = [obs EXCEPT !.commands = @ + 1]
    /\ UNCHANGED thr

DoSetCpuState == \E state \in WidthStates : SetCpuState(state)

NextWidth == WidthStep \/ DoSetCpuState

SpecWidth == InitWidth /\ [][NextWidth]_vars

\* 0x100 + self.state.sp, the address of a stack access
StackAddr(c) == 256 + c.state.sp

\* C28: register widths are an invariant of every reachable state: after any
\* step() (instruction, CHROUT/CHRIN/CINT trap, interrupt service) and any
\* set_cpu_state, PC is in $0000-$FFFF and A, X, Y, SP and P are in $00-$FF,
\* so every stack access stays inside the page $0100-$01FF.
C28_RegisterWidths ==
    /\ cpu.state.pc \in 0..65535
    /\ \A f \in {"a", "x", "y", "sp", "p"} : cpu.state[f] \in 0..255
    /\ StackAddr(cpu) \in 256..511

\* The CINT trap, reached with SP = $FF, left SP = $101
C28_CintOverflowsSp ==
    /\ StepDone /\ last.path = "cint" /\ last.pre.state.sp = 255
    /\ cpu.state.sp = 257 /\ StackAddr(cpu) = 513

---------------------------------------------------------------------------
(* The CIA1 timers under register writes and ticks (SpecTimer).            *)

\* Timer A latches the machine starts with, 0 included
TimerLatches == 0..2
\* $DC04-$DC07, $DC0E, $DC0F
TimerRegs == {4, 5, 6, 7, 14, 15}
TimerValues == {0, 1}
MaxTimerSteps == 4
MaxTimerWrites == 2

\* NOP; JMP $C000 at ProgBase, Timer A programmed with latch
InitTimer ==
    /\ \E latch \in TimerLatches :
          cpu = sys(load_prg(ProgramTimerA(BootCpu(TRUE, TRUE, TRUE, "pal"), latch),
                             ProgBase, <<234, 76, 0, 192>>), ProgBase)
    /\ last = NoHist(cpu)
    /\ obs = NoObs
    /\ thr = NoThreads

TimerStep == obs.steps < MaxTimerSteps /\ Step

\* WRITE DC0x value
TimerWrite(reg, value) ==
    /\ obs.commands < MaxTimerWrites
    /\ cpu' = Wr(cpu, CIA1_BASE + reg, value)
    /\ last' = Hist("write", CIA1_BASE + reg, value, NoValue, "none", FALSE, cpu)
    /\ obs' = [obs EXCEPT !.commands = @ + 1]
    /\ UNCHANGED thr

DoTimerWrite == \E reg \in TimerRegs, value \in TimerValues : TimerWrite(reg, value)

NextTimer == TimerStep \/ DoTimerWrite

SpecTimer == InitTimer /\ [][NextTimer]_vars

\* C29: in every reachable state, after any sequence of CIA1 register writes
\* ($DC04-$DC07, $DC0E, $DC0F) and ticks, the counters of Timer A and Timer B
\* are within $0000-$FFFF.
C29_CountersInRange ==
    /\ cpu.memory.cia1_timer_a.counter \in 0..65535
    /\ cpu.memory.cia1_timer_b.counter \in 0..65535

\* Timer A, started with latch 0 and counter 0, was ticked below 0
C29_NegativeCounter ==
    /\ StepDone /\ last.path = "opcode"
    /\ last.pre.memory.cia1_timer_a.running
    /\ last.pre.memory.cia1_timer_a.latch = 0
    /\ last.pre.memory.cia1_timer_a.counter = 0
    /\ cpu.memory.cia1_timer_a.counter = 0 - last.ret

---------------------------------------------------------------------------
(* Timer A with a latch of 0 (SpecTimer).                                  *)

\* The last step ticked a Timer A that was running on the processor clock
\* with latch 0, its counter at the latch and its IRQ enabled
TickedLatchZero ==
    /\ StepDone /\ last.path = "opcode"
    /\ The({(
           /\ t.running /\ t.input_mode = 0 /\ t.irq_enabled
           /\ t.latch = 0 /\ t.counter = 0
           ) : t \in {last.pre.memory.cia1_timer_a}})

\* C30: a running Timer A whose latch is 0 behaves like a timer with latch 1:
\* it underflows on every tick (setting ICR bit 0 when its IRQ is enabled),
\* recognises at most one underflow per tick, and its counter never becomes
\* negative.
C30_LatchZeroUnderflows ==
    /\ TickedLatchZero =>
          /\ IcrHas(cpu, 1) \/ last.serviced
          /\ cpu.memory.cia1_timer_a.counter >= 0
    /\ obs.underflows <= obs.steps

\* A tick of Timer A with latch 0 set no ICR bit, was followed by no service
\* and left the counter negative
C30_LatchZeroSilent ==
    /\ TickedLatchZero /\ ~last.serviced
    /\ cpu.memory.cia1_icr = 0 /\ ~cpu.memory.pending_irq
    /\ cpu.memory.cia1_timer_a.counter < 0
    /\ obs.underflows = 0

---------------------------------------------------------------------------
(* Reads and writes of the I/O window, failures included (SpecIo).         *)

\* $01, $D011, $D012, $D019, $D018, $D020, $D02F, $D400, $DC04, $DD00, $DFFF
IoAddrs == {1, 53265, 53266, 53273, 53272, 53280, 53295, 54272, 56324, 56576, 57343}
IoValues == {55, 52, 0}
MaxIoCommands == 3

\* WRITE addr value
IoWrite(addr, value) ==
    /\ obs.commands < MaxIoCommands
    /\ cpu' = Wr(cpu, addr, value)
    /\ last' = Hist("write", addr, value, NoValue, "returned", FALSE, cpu)
    /\ obs' = [obs EXCEPT !.commands = @ + 1]
    /\ UNCHANGED thr

\* MEMORY addr: self.emu.memory.read(addr), which returns a byte or raises
IoRead(addr) ==
    /\ obs.commands < MaxIoCommands
    /\ IF read_raises(cpu.memory, addr)
       THEN /\ cpu' = cpu
            /\ last' = Hist("read", addr, NoValue, NoValue, "raised", FALSE, cpu)
       ELSE /\ cpu' = Ack(cpu, addr)
            /\ last' = Hist("read", addr, NoValue, Rd(cpu, addr), "returned", FALSE, cpu)
    /\ obs' = [obs EXCEPT !.commands = @ + 1]
    /\ UNCHANGED thr

DoIoWrite == \E addr \in IoAddrs, value \in IoValues : IoWrite(addr, value)
DoIoRead == \E addr \in IoAddrs : IoRead(addr)

NextIo == DoIoWrite \/ DoIoRead

SpecIo == InitBus /\ [][NextIo]_vars

\* The last operation read a VIC register other than $D011, $D012, $D019 with
\* I/O enabled, and that register was never written
ReadUnwrittenVic ==
    /\ last.op = "read" /\ InVic(last.addr) /\ IoEnabled(last.pre.memory)
    /\ (last.addr - VIC_BASE) \notin {17, 18, 25}
    /\ (last.addr - VIC_BASE) \notin DOMAIN last.pre.memory.vic_regs

\* C31: bus reads and writes never fail: for every 16-bit address, banking
\* value and reachable device state (a VIC whose registers were never written
\* included) read returns a byte and write returns normally; a VIC register
\* other than $D011/$D012/$D019 that was never written reads as 0.
C31_BusNeverFails ==
    /\ last.op \in {"read", "write"} => last.path = "returned"
    /\ last.op = "read" => last.ret \in 0..255
    /\ ReadUnwrittenVic => last.ret = 0

\* The read of $D020 on a VIC that was never written raised
C31_VicReadRaises ==
    /\ ReadUnwrittenVic /\ last.addr = 53280
    /\ ~last.pre.memory.has_vic_regs
    /\ last.path = "raised" /\ cpu = last.pre

---------------------------------------------------------------------------
(* The interrupt entry of step (SpecCpu).                                  *)

\* The machine as the instruction of the last step left it, before the
\* timers were ticked and the interrupt was serviced
AfterInstruction == _execute_opcode(Ack(last.pre, last.addr), last.value).c

\* C32: when step services an interrupt it performs the 6502 entry sequence:
\* it pushes PC high, PC low and P with B cleared (SP decreases by 3), sets
\* the I flag and loads PC from the word at $FFFE/$FFFF.
C32_InterruptEntry ==
    StepDone /\ last.serviced =>
        \E i \in {AfterInstruction} :
            /\ cpu.state.sp = (i.state.sp + 253) % 256
            /\ Rd(cpu, 256 + i.state.sp) = i.state.pc \div 256
            /\ Rd(cpu, 256 + ((i.state.sp + 255) % 256)) = i.state.pc % 256
            /\ Rd(cpu, 256 + ((i.state.sp + 254) % 256)) = ClearBits(i.state.p, 16)
            /\ _get_flag(cpu, FLAG_I)
            /\ cpu.state.pc = _read_word(cpu, 65534)

\* A step serviced the interrupt (the jiffy counter went up) and left SP, P,
\* PC and the stack as the instruction had left them
C32_ServiceWithoutEntry ==
    /\ StepDone /\ last.serviced
    /\ Jiffy(cpu) = Jiffy(last.pre) + 1
    /\ \E i \in {AfterInstruction} :
          /\ cpu.state.sp = i.state.sp /\ cpu.state.p = i.state.p
          /\ cpu.state.pc = i.state.pc
          /\ ~_get_flag(cpu, FLAG_I)
          /\ \A k \in 0..2 : Rd(cpu, 256 + (((i.state.sp + 256) - k) % 256))
                             = Rd(i, 256 + (((i.state.sp + 256) - k) % 256))

---------------------------------------------------------------------------
(* The order of the effects of one step (SpecOrder).                       *)

\*   1  CLI; SEI; NOP; JMP $C000     I cleared and set again, looping
\*   2  CLI; LDA #$00; STA $DC0E; LDA #$01; STA $DC0E; JMP $C001
\*                                   Timer A stopped and started by the program
OrderPrograms ==
    << <<88, 120, 234, 76, 0, 192>>,
       <<88, 169, 0, 141, 14, 220, 169, 1, 141, 14, 220, 76, 1, 192>> >>
MaxOrderLatch == 6
MaxOrderSteps == 9

InitOrder ==
    /\ \E i \in 1..Len(OrderPrograms), latch \in 1..MaxOrderLatch :
          cpu = sys(load_prg(ProgramTimerA(BootCpu(TRUE, TRUE, TRUE, "pal"), latch),
                             ProgBase, OrderPrograms[i]), ProgBase)
    /\ last = NoHist(cpu)
    /\ obs = NoObs
    /\ thr = NoThreads

OrderStep == obs.steps < MaxOrderSteps /\ Step

NextOrder == OrderStep

SpecOrder == InitOrder /\ [][NextOrder]_vars

\* The cycles of the instruction of the last step take Timer A, as that
\* instruction left it, from above 0 to 0 or below, with its IRQ enabled
OwnUnderflow ==
    /\ StepDone /\ last.path = "opcode"
    /\ The({(
           /\ t.running /\ t.input_mode = 0 /\ t.irq_enabled
           /\ t.counter > 0 /\ t.counter <= last.ret
           ) : t \in {AfterInstruction.memory.cia1_timer_a}})

\* C33: within one step the instruction's effects come first, then the cycle
\* counter, the CIA tick with the instruction's cycles, the raster tick and
\* the interrupt service: a Timer A underflow caused by an instruction's own
\* cycles is serviced before that step returns when I = 0 after the
\* instruction, and is not serviced in that step when the instruction set I.
C33_StepOrder ==
    StepDone /\ last.path = "opcode" =>
        /\ cpu.state.cycles = last.pre.state.cycles + last.ret
        /\ cpu.memory.raster_line
              = (last.pre.memory.raster_line + 1) % RasterMax(cpu.memory)
        /\ OwnUnderflow =>
              /\ IcrHas(cpu, 129) /\ cpu.memory.pending_irq
              /\ cpu.memory.cia1_timer_a.counter = cpu.memory.cia1_timer_a.latch
              /\ IF _get_flag(AfterInstruction, FLAG_I)
                 THEN ~last.serviced /\ Jiffy(cpu) = Jiffy(last.pre)
                 ELSE last.serviced /\ Jiffy(cpu) = Jiffy(last.pre) + 1

\* SEI ran with I = 0, its own two cycles underflowed Timer A, and the step
\* returned without servicing it; an earlier underflow had been serviced in
\* the step that caused it
C33_SeiDefers ==
    /\ OwnUnderflow /\ last.value = 120
    /\ ~_get_flag(last.pre, FLAG_I) /\ _get_flag(cpu, FLAG_I)
    /\ ~last.serviced /\ cpu.memory.pending_irq
    /\ obs.services >= 1 /\ obs.services = Jiffy(cpu)

---------------------------------------------------------------------------
(* The pending-IRQ line and the ICR (SpecOrder).                           *)

\* C34: in every reachable state the pending-IRQ line and ICR bit 7 agree,
\* and ICR bit 7 is set exactly when ICR bit 0 or bit 1 is set: no operation
\* (CLI in particular) de-asserts pending-IRQ while ICR flags stay latched,
\* so an underflow that occurred while I = 1 is serviced after I is cleared.
C34_IrqLineAgrees ==
    /\ cpu.memory.pending_irq <=> IcrHas(cpu, 128)
    /\ IcrHas(cpu, 128) <=> BitAnd(cpu.memory.cia1_icr, 3) # 0
    /\ (StepDone /\ last.path = "opcode" /\ last.value = 88
          /\ last.pre.memory.pending_irq) => last.serviced

\* CLI ran with pending-IRQ asserted by an underflow that occurred while
\* I = 1; after it I = 0, ICR bits 0 and 7 are still latched, pending-IRQ is
\* de-asserted and nothing was serviced
C34_CliDropsIrq ==
    /\ StepDone /\ last.path = "opcode" /\ last.value = 88
    /\ last.pre.memory.pending_irq /\ IcrHas(last.pre, 129)
    /\ _get_flag(last.pre, FLAG_I) /\ ~_get_flag(cpu, FLAG_I)
    /\ IcrHas(cpu, 129) /\ ~cpu.memory.pending_irq
    /\ ~last.serviced /\ Jiffy(cpu) = Jiffy(last.pre)

---------------------------------------------------------------------------
(* One-shot timers (SpecShot).                                             *)

MaxShotLatch == 3
MaxShotSteps == 4
MaxShotWrites == 1
\* $DC0D, $DC0E, $DC0F
ShotRegs == {13, 14, 15}
\* one-shot start, one-shot without start, continuous start, mask clear, mask set
ShotValues == {9, 8, 1, 3, 131}

\* Timer A (base 4, control 14) or Timer B (base 6, control 15) programmed
\* through the bus as a one-shot timer: stopped, latch written, IRQ mask
\* written, started with the one-shot bit
ProgramOneShot(c_, base_, control_, latch_, mask_) ==
    The({(
        Wr(Wr(Wr(Wr(Wr(c, CIA1_BASE + control, 0), CIA1_BASE + base, latch % 256),
                 CIA1_BASE + base + 1, latch \div 256), ADDR_ICR, mask),
           CIA1_BASE + control, 9)
        ) : c \in {c_}, base \in {base_}, control \in {control_},
            latch \in {latch_}, mask \in {mask_}})

\* NOP; JMP $C000 at ProgBase, I = 1 from boot
InitShot ==
    /\ \E timer \in {<<4, 14>>, <<6, 15>>}, latch \in 1..MaxShotLatch, mask \in {3, 131} :
          cpu = sys(load_prg(ProgramOneShot(BootCpu(TRUE, TRUE, TRUE, "pal"),
                                            timer[1], timer[2], latch, mask),
                             ProgBase, <<234, 76, 0, 192>>), ProgBase)
    /\ last = NoHist(cpu)
    /\ obs = NoObs
    /\ thr = NoThreads

ShotStep == obs.steps < MaxShotSteps /\ Step

\* WRITE DC0x value
ShotWrite(reg, value) ==
    /\ obs.commands < MaxShotWrites
    /\ cpu' = Wr(cpu, CIA1_BASE + reg, value)
    /\ last' = Hist("write", CIA1_BASE + reg, value, NoValue, "none", FALSE, cpu)
    /\ obs' = [obs EXCEPT !.commands = @ + 1]
    /\ UNCHANGED thr

DoShotWrite == \E reg \in ShotRegs, value \in ShotValues : ShotWrite(reg, value)

NextShot == ShotStep \/ DoShotWrite

SpecShot == InitShot /\ [][NextShot]_vars

\* The timers of CIA1 in the machine c
ShotTimers(c) == <<c.memory.cia1_timer_a, c.memory.cia1_timer_b>>

\* The last step ticked timer k, running in one-shot mode on the processor
\* clock, from above 0 to 0 or below
OneShotUnderflow(k) ==
    /\ StepDone /\ last.path = "opcode"
    /\ The({(
           /\ t.running /\ t.one_shot /\ t.input_mode = 0
           /\ t.counter > 0 /\ t.counter <= last.ret
           ) : t \in {ShotTimers(last.pre)[k]}})

\* C35: when a CIA1 timer in one-shot mode underflows, its counter is
\* reloaded from the latch and running becomes false, whether or not its IRQ
\* is enabled; it then stays stopped, its counter unchanged by ticks, until a
\* control-register write sets bit 0 again.
C35_OneShotStops ==
    \A k \in 1..2 :
        /\ OneShotUnderflow(k) =>
              /\ ShotTimers(cpu)[k].counter = ShotTimers(cpu)[k].latch
              /\ ~ShotTimers(cpu)[k].running
        /\ (StepDone /\ ~ShotTimers(last.pre)[k].running) =>
              /\ ~ShotTimers(cpu)[k].running
              /\ ShotTimers(cpu)[k].counter = ShotTimers(last.pre)[k].counter
        /\ (last.op = "write" /\ ~ShotTimers(last.pre)[k].running
              /\ ShotTimers(cpu)[k].running) =>
              /\ last.addr = CIA1_BASE + 13 + k
              /\ last.value % 2 = 1

\* Timer A, one-shot with its IRQ enabled, underflowed: it was reloaded, ICR
\* bit 0 was set, and it is still running
C35_OneShotKeepsRunning ==
    /\ OneShotUnderflow(1)
    /\ last.pre.memory.cia1_timer_a.irq_enabled
    /\ IcrHas(cpu, 129)
    /\ cpu.memory.cia1_timer_a.counter = cpu.memory.cia1_timer_a.latch
    /\ cpu.memory.cia1_timer_a.running /\ cpu.memory.cia1_timer_a.one_shot

---------------------------------------------------------------------------
(* Timer B and its input modes (SpecCascade).                              *)

MaxCascadeLatch == 3
MaxCascadeSteps == 4
\* bits 5-6 of CRB
InputModes == 0..3

\* Timer B programmed through the bus: stopped, latch written, its IRQ
\* enabled ($DC0D = $82), started with the input mode in bits 5-6 of CRB
ProgramTimerB(c_, latch_, mode_) ==
    The({(
        Wr(Wr(Wr(Wr(Wr(c, CIA1_BASE + 15, 0), CIA1_BASE + 6, latch % 256),
                 CIA1_BASE + 7, latch \div 256), ADDR_ICR, 130),
           CIA1_BASE + 15, 1 + 32 * mode)
        ) : c \in {c_}, latch \in {latch_}, mode \in {mode_}})

\* NOP; JMP $C000 at ProgBase, I = 1 from boot, both timers running
InitCascade ==
    /\ \E a \in 1..MaxCascadeLatch, b \in 1..MaxCascadeLatch, mode \in InputModes :
          cpu = sys(load_prg(ProgramTimerB(ProgramTimerA(BootCpu(TRUE, TRUE, TRUE, "pal"), a),
                                           b, mode),
                             ProgBase, <<234, 76, 0, 192>>), ProgBase)
    /\ last = NoHist(cpu)
    /\ obs = NoObs
    /\ thr = NoThreads

CascadeStep == obs.steps < MaxCascadeSteps /\ Step

NextCascade == CascadeStep

SpecCascade == InitCascade /\ [][NextCascade]_vars

\* Timer B after a tick that takes n from the counter of the running timer t
Counted(t_, n_) ==
    The({(
        IF t.counter > 0 /\ t.counter <= n THEN t.latch ELSE t.counter - n
        ) : t \in {t_}, n \in {n_}})

\* The last step executed an instruction with Timer B running in the input
\* mode given
TickedTimerB(mode) ==
    /\ StepDone /\ last.path = "opcode"
    /\ last.pre.memory.cia1_timer_b.running
    /\ last.pre.memory.cia1_timer_b.input_mode = mode

\* Timer A underflowed in the last step
TimerAUnderflowed == UnderflowsIn(Ack(last.pre, last.addr), last.value, last.path)

\* C36: a running Timer B in input mode 2 decrements by exactly 1 in each
\* step in which Timer A underflows and is unchanged in steps without a Timer
\* A underflow; in any other input mode it decrements by the elapsed cycles;
\* when Timer B underflows, ICR bit 1 is set.
C36_TimerBCounts ==
    \E b \in {last.pre.memory.cia1_timer_b} :
        /\ TickedTimerB(2) =>
              cpu.memory.cia1_timer_b.counter
                 = IF TimerAUnderflowed THEN Counted(b, 1) ELSE b.counter
        /\ \A mode \in InputModes \ {2} : TickedTimerB(mode) =>
              cpu.memory.cia1_timer_b.counter = Counted(b, last.ret)
        /\ \A mode \in InputModes :
              (/\ TickedTimerB(mode)
               /\ cpu.memory.cia1_timer_b.counter # b.counter
               /\ cpu.memory.cia1_timer_b.counter = b.latch) => IcrHas(cpu, 2)

\* Timer A underflowed in a step and Timer B, running in input mode 2 with
\* a counter above 0, kept its counter
C36_CascadeStuck ==
    /\ TickedTimerB(2) /\ TimerAUnderflowed
    /\ last.pre.memory.cia1_timer_b.counter > 0
    /\ cpu.memory.cia1_timer_b = last.pre.memory.cia1_timer_b
    /\ ~IcrHas(cpu, 2)

---------------------------------------------------------------------------
(* The raster line (SpecRaster).                                           *)

MaxRasterSteps == 14

\* The programs of SpecCpu on a PAL and on an NTSC machine
InitRaster ==
    /\ \E i \in 1..Len(Programs), video_standard \in {"pal", "ntsc"} :
          cpu = sys(load_prg(ProgramTimerA(BootCpu(TRUE, TRUE, TRUE, video_standard), MaxLatch),
                             ProgBase, Programs[i]), ProgBase)
    /\ last = NoHist(cpu)
    /\ obs = NoObs
    /\ thr = NoThreads

\* STEP: self.emu.cpu.step()
RasterStep ==
    /\ obs.steps < MaxRasterSteps
    /\ CanStep(cpu)
    /\ \E r \in {step(cpu)}, opcode \in {Rd(cpu, cpu.state.pc)} :
          /\ cpu' = r.c
          /\ last' = Hist("step", cpu.state.pc, opcode, r.ret, r.path, r.serviced, cpu)
          /\ obs' = Observe(Ack(cpu, cpu.state.pc), opcode, r)
    /\ UNCHANGED thr

NextRaster == RasterStep

SpecRaster == InitRaster /\ [][NextRaster]_vars

\* C37: the VIC raster line is within 0..311 under PAL and within 0..262
\* under NTSC in every reachable state, from construction on, and every step
\* that executes an instruction advances it by exactly one modulo 312 (PAL)
\* or 263 (NTSC).
C37_RasterInRange ==
    /\ cpu.memory.raster_line \in 0..(RasterMax(cpu.memory) - 1)
    /\ (StepDone /\ last.path = "opcode") =>
          cpu.memory.raster_line
             = (last.pre.memory.raster_line + 1) % RasterMax(cpu.memory)

\* An NTSC machine on which no instruction has run yet has raster line 300
C37_NtscStartsAt300 ==
    /\ cpu.memory.video_standard = "ntsc"
    /\ obs.steps = 0
    /\ cpu.memory.raster_line = 300
    /\ Rd(cpu, VIC_BASE + 18) = 300 - 256

---------------------------------------------------------------------------
(* ADC and SBC (SpecArith).                                                *)

\* ADC #, zp, abs; SBC #, zp, (zp,X), abs, abs,X
ArithOpcodes == {105, 101, 109, 233, 229, 225, 237, 253}
AdcOpcodes == {105, 101, 109}
ArithValues == {0, 1, 80, 127, 128, 255}
\* C, V, D and I in all the combinations of C, V and D
ArithP == {4, 5, 68, 69, 12, 13, 76, 77}
MaxArithSteps == 1

\* $C100, where the operand of the absolute modes lies; $10, where the
\* operand of the zero-page mode lies; $20/$21, the pointer of (zp,X)
ArithOperandAt == ProgBase + 256

\* The instruction at ProgBase with its operand bytes; X = 0
ArithProgram(opcode_) ==
    The({(
        IF opcode \in {105, 233} THEN <<opcode>>
        ELSE IF opcode \in {101, 229} THEN <<opcode, 16>>
        ELSE IF opcode = 225 THEN <<opcode, 32>>
        ELSE <<opcode, ArithOperandAt % 256, ArithOperandAt \div 256>>
        ) : opcode \in {opcode_}})

\* The machine with the instruction loaded and value where its mode reads it
ArithMachine(opcode_, value_) ==
    The({(
        The({(
            IF opcode \in {105, 233} THEN Wr(c, ProgBase + 1, value)
            ELSE IF opcode \in {101, 229} THEN Wr(c, 16, value)
            ELSE IF opcode = 225
                 THEN Wr(Wr(Wr(c, 32, ArithOperandAt % 256), 33, ArithOperandAt \div 256),
                         ArithOperandAt, value)
            ELSE Wr(c, ArithOperandAt, value)
            ) : c \in {load_prg(BootCpu(TRUE, TRUE, TRUE, "pal"), ProgBase,
                                ArithProgram(opcode))}})
        ) : opcode \in {opcode_}, value \in {value_}})

InitArith ==
    /\ \E opcode \in ArithOpcodes, a \in ArithValues, value \in ArithValues, p \in ArithP :
          /\ cpu = set_cpu_state(ArithMachine(opcode, value),
                                 [pc |-> ProgBase, a |-> a, x |-> 0, p |-> p])
          /\ obs = [NoObs EXCEPT !.origin = [a |-> a, value |-> value, p |-> p]]
    /\ last = NoHist(cpu)
    /\ thr = NoThreads

ArithStep == obs.steps < MaxArithSteps /\ Step

NextArith == ArithStep

SpecArith == InitArith /\ [][NextArith]_vars

\* The 6502's binary addition of a, m and the carry-in: the accumulator, the
\* carry-out and the signed overflow ((a ^ r) & (m ^ r) & 0x80) != 0
Sum(a_, m_, carry_in) ==
    The({(
        The({(
            [a |-> r % 256, c |-> r > 255,
             v |-> Bit7(a) # Bit7(r % 256) /\ Bit7(m) # Bit7(r % 256)]
            ) : r \in {a + m + (IF carry_in THEN 1 ELSE 0)}})
        ) : a \in {a_}, m \in {m_}})

\* What the instruction of the last step has to compute: ADC adds the
\* operand, SBC adds its complement
ArithExpected ==
    Sum(obs.origin.a,
        IF last.value \in AdcOpcodes THEN obs.origin.value ELSE 255 - obs.origin.value,
        obs.origin.p % 2 = 1)

\* The last step executed ADC or SBC
ArithDone == StepDone /\ last.path = "opcode" /\ last.value \in ArithOpcodes

\* C38: for every accumulator value, operand and carry-in, ADC and SBC in
\* every implemented addressing mode set V by the signed-overflow rule, set C
\* to the unsigned carry-out (ADC) or to "no borrow" (SBC), and behave
\* identically with D = 1 and D = 0.
C38_ArithFlags ==
    ArithDone =>
        /\ cpu.state.a = ArithExpected.a
        /\ _get_flag(cpu, 1) = ArithExpected.c
        /\ _get_flag(cpu, 64) = ArithExpected.v
        /\ \E d \in {~_get_flag(last.pre, 8)} :
              step(_set_flag(last.pre, 8, d)).c = _set_flag(cpu, 8, d)

\* ADC #$50 with A = $50, carry clear and V clear gave A = $A0 and left V clear
C38_AdcLeavesV ==
    /\ ArithDone /\ last.value = 105
    /\ obs.origin.a = 80 /\ obs.origin.value = 80 /\ obs.origin.p = 4
    /\ cpu.state.a = 160 /\ ~_get_flag(cpu, 1)
    /\ ~_get_flag(cpu, 64)

---------------------------------------------------------------------------
(* Undocumented NOPs and the KIL family (SpecUndoc).                       *)

\* $02, $12, $22, $32, $42, $52, $62, $72, $92, $B2, $D2, $F2
KilOpcodes == {2, 18, 34, 50, 66, 82, 98, 114, 146, 178, 210, 242}
\* The NOPs the spec lists, by operand size and cycles
ListedNops ==
    [o \in {4, 68, 100} |-> [size |-> 2, cycles |-> 3]]
    @@ [o \in {20, 28, 60, 92, 124, 220, 252} |-> [size |-> 3, cycles |-> 4]]
    @@ [o \in {128, 130, 137, 194, 226} |-> [size |-> 2, cycles |-> 2]]
\* with $01, an opcode no branch names
UndocOpcodes == (DOMAIN ListedNops) \cup KilOpcodes \cup {1}
UndocA == {0, 85}
UndocP == {4, 36, 231}
MaxUndocSteps == 2

\* The opcode at ProgBase, followed by NOPs
InitUndoc ==
    /\ \E opcode \in UndocOpcodes, a \in UndocA, p \in UndocP :
          cpu = set_cpu_state(load_prg(BootCpu(TRUE, TRUE, TRUE, "pal"), ProgBase,
                                       <<opcode, 234, 234, 234>>),
                              [pc |-> ProgBase, a |-> a, x |-> a, y |-> a, p |-> p])
    /\ last = NoHist(cpu)
    /\ obs = NoObs
    /\ thr = NoThreads

UndocStep == obs.steps < MaxUndocSteps /\ Step

NextUndoc == UndocStep

SpecUndoc == InitUndoc /\ [][NextUndoc]_vars

\* The last step fetched the opcode at ProgBase on a running CPU
FirstStep == StepDone /\ last.path = "opcode" /\ last.addr = ProgBase

\* The last step changed no register but PC, no flag and no byte of RAM
OnlyPcMoved ==
    /\ \A f \in {"a", "x", "y", "sp", "p", "stopped"} : cpu.state[f] = last.pre.state[f]
    /\ cpu.memory.ram = last.pre.memory.ram

\* C39: each listed undocumented NOP changes nothing but PC and the cycle
\* count: $04/$44/$64 advance PC by 2 and cost 3 cycles, $14/$1C/$3C/$5C/$7C/
\* $DC/$FC advance PC by 3 and cost 4 cycles, and $80/$82/$89/$C2/$E2 advance
\* PC by 2 and cost 2 cycles.
C39_UndocNops ==
    (FirstStep /\ last.value \in DOMAIN ListedNops) =>
        /\ OnlyPcMoved
        /\ cpu.state.pc = last.addr + ListedNops[last.value].size
        /\ last.ret = ListedNops[last.value].cycles
        /\ cpu.state.cycles = last.pre.state.cycles + ListedNops[last.value].cycles

\* $80 advanced PC by 1: the next step fetched its operand byte as an opcode
C39_Nop80SkipsOne ==
    /\ StepDone /\ obs.steps = 2
    /\ Rd(cpu, ProgBase) = 128
    /\ last.addr = ProgBase + 1
    /\ last.pre.state.cycles = 2

\* C40: every opcode of the KIL family ($02, $12, $22, $32, $42, $52, $62,
\* $72, $92, $B2, $D2, $F2) sets the CPU stopped flag and returns 0 cycles,
\* exactly like an unknown opcode; none of them is executed as a NOP.
C40_KilHalts ==
    (FirstStep /\ last.value \in KilOpcodes) =>
        /\ cpu.state.stopped
        /\ last.ret = 0
        /\ cpu.state.cycles = last.pre.state.cycles

\* $12 ran as a two-byte NOP of 3 cycles and the CPU went on to the next
\* instruction
C40_KilRunsAsNop ==
    /\ StepDone /\ obs.steps = 2 /\ last.path = "opcode"
    /\ Rd(cpu, ProgBase) = 18
    /\ last.addr = ProgBase + 2 /\ last.value = 234
    /\ last.pre.state.cycles = 3
    /\ ~cpu.state.stopped

====
